---- MODULE Spec2Model ----
(***************************************************************************)
(* Loopai runtime core: the artifact store (runtime/artifact_cache.py)     *)
(* with its versioned directories and active-version pointer, the program  *)
(* executor (executor/program_executor.py), the random sampler             *)
(* (sampler/random_sampler.py) and the comparison engine                   *)
(* (validator/comparison_engine.py) with the sample-then-validate run of   *)
(* scripts/run_phase1_benchmark.py.                                        *)
(*                                                                         *)
(* The artifact store is modelled at the level of the directory tree it    *)
(* writes: a task directory maps entry names (sequences of characters) to  *)
(* directories, symbolic links and plain files.  data_dir is taken to be   *)
(* an absolute path, as in runtime/main.py ("/loopai-data").               *)
(***************************************************************************)
EXTENDS Integers, Sequences, FiniteSets, TLC

(***************************************************************************)
(* Bounds                                                                  *)
(***************************************************************************)
MaxVersion == 2

\* the longest batch of executions handed to the sampler
MaxBatch == 3

\* compile() calls followed per program id
MaxCompiles == 2

\* the last day of January 2024 the clock reaches
MaxDay == 3

\* log_execution calls followed
MaxLogged == 2

\* the longest day's log whose percentiles are taken
MaxLatencies == 4

\* the largest max_retries a client is made with
MaxRetries == 2

(***************************************************************************)
(* Characters and text                                                     *)
(***************************************************************************)
CR == "\r"
LF == "\n"

Digits == <<"0", "1", "2", "3", "4", "5", "6", "7", "8", "9">>

IsDigit(c) == \E i \in 1..10 : Digits[i] = c

DigitVal(c) == (CHOOSE i \in 1..10 : Digits[i] = c) - 1

IsSpace(c) == c \in {" ", "\t", LF, CR}

\* str(n) / f"{n}" for an int
RECURSIVE StrNat(_)
StrNat(n) == IF n < 10 THEN <<Digits[n + 1]>>
             ELSE StrNat(n \div 10) \o <<Digits[(n % 10) + 1]>>

Str(n) == IF n < 0 THEN <<"-">> \o StrNat(0 - n) ELSE StrNat(n)

\* str.strip()
RECURSIVE LStrip(_)
LStrip(s) == IF s # <<>> /\ IsSpace(Head(s)) THEN LStrip(Tail(s)) ELSE s

RECURSIVE RStrip(_)
RStrip(s) == IF s # <<>> /\ IsSpace(s[Len(s)])
             THEN RStrip(SubSeq(s, 1, Len(s) - 1)) ELSE s

Strip(s) == RStrip(LStrip(s))

ParseError == [ok |-> FALSE, val |-> 0]

\* digits with single underscores between them, as int() accepts them
RECURSIVE ParseDigits(_, _, _)
ParseDigits(s, acc, afterDigit) ==
    IF s = <<>> THEN (IF afterDigit THEN [ok |-> TRUE, val |-> acc] ELSE ParseError)
    ELSE IF IsDigit(Head(s)) THEN ParseDigits(Tail(s), acc * 10 + DigitVal(Head(s)), TRUE)
    ELSE IF Head(s) = "_" /\ afterDigit THEN ParseDigits(Tail(s), acc, FALSE)
    ELSE ParseError

\* int(s) on a str: surrounding whitespace and a sign are accepted
PyInt(s) ==
    LET t == Strip(s)
    IN  IF t = <<>> THEN ParseError
        ELSE IF Head(t) = "-"
             THEN LET r == ParseDigits(Tail(t), 0, FALSE)
                  IN  [ok |-> r.ok, val |-> 0 - r.val]
        ELSE IF Head(t) = "+" THEN ParseDigits(Tail(t), 0, FALSE)
        ELSE ParseDigits(t, 0, FALSE)

\* f"v{version}"
VersionDirName(version) == <<"v">> \o Str(version)

ActiveName == <<"a", "c", "t", "i", "v", "e">>

MarkerName == <<".", "a", "c", "t", "i", "v", "e", "_", "v", "e", "r", "s", "i", "o", "n">>


(***************************************************************************)
(* ProgramArtifact (models.py) and its JSON form                           *)
(***************************************************************************)
Tasks == {"task-a", "task-b"}

ProgramStatus == {"draft", "validated", "active", "deprecated", "failed"}

\* Source texts used as artifact code; NewCode has a CR LF line ending.
OldCode == <<"o", LF, "k">>

NewCode == <<"n", CR, LF, "w">>

VersionCode(v) == <<"r">> \o Str(v)

\* Field constraints of ProgramArtifact: version >= 1, status in the enum.
ValidArtifact(a) == a.version >= 1 /\ a.status \in ProgramStatus

\* Artifacts offered to store_artifact: version 1 in an old and a new edition
\* that share the id (model_copy keeps it), one artifact per later version.
\* Version 0 is refused by the constructor's validation.
CandidateArtifacts ==
    {[id |-> 1, version |-> 1, code |-> OldCode, status |-> "draft"],
     [id |-> 1, version |-> 1, code |-> NewCode, status |-> "validated"],
     [id |-> 10, version |-> 0, code |-> OldCode, status |-> "draft"]}
    \cup {[id |-> v, version |-> v, code |-> VersionCode(v), status |-> "validated"] :
            v \in 2..MaxVersion}

SampleArtifacts == {a \in CandidateArtifacts : ValidArtifact(a)}

NoArtifact == [id |-> 0, version |-> 0, code |-> <<>>, status |-> ""]

\* artifact.model_dump(mode="json", exclude={"code"})
ModelDumpNoVersion(a) == [id |-> a.id, status |-> a.status]

ModelDump(a) == [id |-> a.id, version |-> a.version, status |-> a.status]

\* ProgramArtifact(**metadata): absent fields take their defaults, then the
\* field constraints are validated.
FromMetadata(metadata, code) ==
    [id      |-> metadata.id,
     version |-> IF "version" \in DOMAIN metadata THEN metadata.version ELSE 1,
     code    |-> code,
     status  |-> IF "status" \in DOMAIN metadata THEN metadata.status ELSE "draft"]

(***************************************************************************)
(* Text files: open(..., "w") / open(..., "r") with newline=None           *)
(***************************************************************************)
Platforms == {"posix", "windows"}

\* os.linesep replaces every "\n" on write
RECURSIVE TextWrite(_, _)
TextWrite(s, plat) ==
    IF s = <<>> THEN <<>>
    ELSE IF Head(s) = LF /\ plat = "windows"
         THEN <<CR, LF>> \o TextWrite(Tail(s), plat)
    ELSE <<Head(s)>> \o TextWrite(Tail(s), plat)

\* universal newlines on read: "\r\n" and "\r" become "\n"
RECURSIVE TextRead(_)
TextRead(s) ==
    IF s = <<>> THEN <<>>
    ELSE IF Head(s) = CR
         THEN IF Len(s) >= 2 /\ s[2] = LF
              THEN <<LF>> \o TextRead(Tail(Tail(s)))
              ELSE <<LF>> \o TextRead(Tail(s))
    ELSE <<Head(s)>> \o TextRead(Tail(s))

\* os.symlink is refused (OSError) on Windows without the privilege
SymlinkAllowed(plat) == plat = "posix"

(***************************************************************************)
(* The directory tree under artifacts/                                     *)
(***************************************************************************)
EmptyDir == [n \in {} |-> 0]

\* A task directory: absent, or present with its entries by name.
NoDir == [exists |-> FALSE, entries |-> EmptyDir]

Dir(entries) == [exists |-> TRUE, entries |-> entries]

DirEntry(files) == [kind |-> "dir", files |-> files]

SymlinkEntry(target) == [kind |-> "symlink", target |-> target]

FileEntry(content) == [kind |-> "file", content |-> content]

\* Entries no store_artifact call creates: a directory whose suffix is not a
\* number, a directory outside the scheme, a directory whose suffix int()
\* accepts although it is not the decimal form of a version, a plain file.
ForeignDir ==
    (<<"v", "f", "o", "o">> :> DirEntry(EmptyDir))
      @@ (<<"t", "m", "p">> :> DirEntry(EmptyDir))
      @@ (<<"v", "+", "2">> :> DirEntry(EmptyDir))
      @@ (<<"v", ".", "t", "x", "t">> :> FileEntry(<<"x">>))

\* Path.exists(): follows a symbolic link, False for a dangling one
PathExists(dir, name) ==
    /\ dir.exists
    /\ name \in DOMAIN dir.entries
    /\ dir.entries[name].kind = "symlink" => dir.entries[name].target \in DOMAIN dir.entries

\* Path.is_symlink()
IsSymlink(dir, name) ==
    dir.exists /\ name \in DOMAIN dir.entries /\ dir.entries[name].kind = "symlink"

\* Path.is_dir(): follows a symbolic link
IsDir(dir, name) ==
    /\ dir.exists
    /\ name \in DOMAIN dir.entries
    /\ \/ dir.entries[name].kind = "dir"
       \/ /\ dir.entries[name].kind = "symlink"
          /\ dir.entries[name].target \in DOMAIN dir.entries
          /\ dir.entries[dir.entries[name].target].kind = "dir"

\* dir with entry name set (created or replaced)
WithEntry(dir, name, entry) ==
    Dir([n \in (DOMAIN dir.entries) \cup {name} |->
            IF n = name THEN entry ELSE dir.entries[n]])

\* dir with entry name removed
WithoutEntry(dir, name) ==
    Dir([n \in (DOMAIN dir.entries) \ {name} |-> dir.entries[n]])

(***************************************************************************)
(* Results of a call: a value, None, or a raised exception                 *)
(***************************************************************************)
ReturnNone == [tag |-> "none", artifact |-> NoArtifact, exc |-> ""]

ReturnArtifact(a) == [tag |-> "artifact", artifact |-> a, exc |-> ""]

Raise(exc) == [tag |-> "raise", artifact |-> NoArtifact, exc |-> exc]

(***************************************************************************)
(* ArtifactCache.store_artifact                                            *)
(***************************************************************************)
\* version_dir.mkdir(parents=True, exist_ok=True)
StoreMkdir(dir, version) ==
    IF PathExists(dir, VersionDirName(version)) THEN dir
    ELSE WithEntry(dir, VersionDirName(version), DirEntry(EmptyDir))

\* one file of a version directory written (opened with "w": prior content gone)
WithFile(dir, version, file, content) ==
    LET name == VersionDirName(version)
        old == dir.entries[name].files
    IN  WithEntry(dir, name,
            DirEntry([f \in (DOMAIN old) \cup {file} |->
                        IF f = file THEN content ELSE old[f]]))

\* the whole call: directory, program.py, metadata.json
StoreArtifactOn(dir, artifact, plat) ==
    WithFile(WithFile(StoreMkdir(dir, artifact.version), artifact.version,
                      "program.py", TextWrite(artifact.code, plat)),
             artifact.version, "metadata.json", ModelDump(artifact))

(***************************************************************************)
(* ArtifactCache.get_artifact                                              *)
(***************************************************************************)
GetArtifactOn(dir, version) ==
    LET name == VersionDirName(version)
    IN  IF ~PathExists(dir, name) THEN ReturnNone
        ELSE IF dir.entries[name].kind # "dir" THEN Raise("NotADirectoryError")
        ELSE LET files == dir.entries[name].files
             IN  IF "metadata.json" \notin DOMAIN files THEN Raise("FileNotFoundError")
                 ELSE IF DOMAIN files["metadata.json"] = {} THEN Raise("JSONDecodeError")
                 ELSE IF "program.py" \notin DOMAIN files THEN Raise("FileNotFoundError")
                 ELSE LET a == FromMetadata(files["metadata.json"],
                                            TextRead(files["program.py"]))
                      IN  IF ValidArtifact(a) THEN ReturnArtifact(a)
                          ELSE Raise("ValidationError")

(***************************************************************************)
(* ArtifactCache.list_versions                                             *)
(***************************************************************************)
\* entries list_versions takes for a version: a directory named "v" + int
VersionEntries(dir) ==
    {n \in DOMAIN dir.entries :
        /\ IsDir(dir, n)
        /\ n # <<>>
        /\ Head(n) = "v"
        /\ PyInt(Tail(n)).ok}

\* sorted(versions): the parsed numbers of the names, ascending
RECURSIVE SortedVersions(_)
SortedVersions(names) ==
    IF names = {} THEN <<>>
    ELSE LET m == CHOOSE n \in names :
                    \A k \in names : PyInt(Tail(n)).val <= PyInt(Tail(k)).val
         IN  <<PyInt(Tail(m)).val>> \o SortedVersions(names \ {m})

ListVersionsOn(dir) ==
    IF ~dir.exists THEN <<>> ELSE SortedVersions(VersionEntries(dir))

(***************************************************************************)
(* ArtifactCache.get_active_artifact                                       *)
(***************************************************************************)
\* int(...) of the pointer's text, then get_artifact
ResolveVersion(dir, text) ==
    IF PyInt(text).ok THEN GetArtifactOn(dir, PyInt(text).val)
    ELSE Raise("ValueError")

\* no pointer: the highest listed version served instead of None
GetActiveArtifactFallsBack(dir) ==
    IF ~dir.exists THEN ReturnNone
    ELSE IF PathExists(dir, ActiveName) /\ IsSymlink(dir, ActiveName)
         THEN ResolveVersion(dir, Tail(dir.entries[ActiveName].target))
    ELSE IF PathExists(dir, MarkerName)
         THEN ResolveVersion(dir, dir.entries[MarkerName].content)
    ELSE IF ListVersionsOn(dir) # <<>>
         THEN GetArtifactOn(dir, ListVersionsOn(dir)[Len(ListVersionsOn(dir))])
    ELSE ReturnNone

\* the symlink first, the marker file second, None without either
GetActiveArtifactOn(dir) ==
    IF ~dir.exists THEN ReturnNone
    ELSE IF PathExists(dir, ActiveName) /\ IsSymlink(dir, ActiveName)
         THEN ResolveVersion(dir, Tail(dir.entries[ActiveName].target))
    ELSE IF PathExists(dir, MarkerName)
         THEN ResolveVersion(dir, dir.entries[MarkerName].content)
    ELSE ReturnNone

(***************************************************************************)
(* ArtifactCache.set_active_version                                        *)
(***************************************************************************)
\* the existing link removed, if there is one
Unlinked(dir) ==
    IF PathExists(dir, ActiveName) \/ IsSymlink(dir, ActiveName)
    THEN WithoutEntry(dir, ActiveName) ELSE dir

\* the new pointer written: the link, or the marker file when os.symlink fails
Pointed(dir, version, plat) ==
    IF SymlinkAllowed(plat)
    THEN WithEntry(dir, ActiveName, SymlinkEntry(VersionDirName(version)))
    ELSE WithEntry(dir, MarkerName, FileEntry(Str(version)))

SetActiveVersionUnchecked(dir, version, plat) ==
    [dir |-> Pointed(Unlinked(dir), version, plat), result |-> ReturnNone]

\* the symlink created without removing the old one: FileExistsError is an
\* OSError, so the marker file is written beside the old link
SetActiveVersionNoUnlink(dir, version, plat) ==
    IF ~PathExists(dir, VersionDirName(version))
    THEN [dir |-> dir, result |-> Raise("FileNotFoundError")]
    ELSE IF IsSymlink(dir, ActiveName)
         THEN [dir |-> WithEntry(dir, MarkerName, FileEntry(Str(version))),
               result |-> ReturnNone]
    ELSE [dir |-> Pointed(dir, version, plat), result |-> ReturnNone]

\* the switch also rewriting the chosen version's metadata with status "active"
SetActiveVersionMarksStatus(dir, version, plat) ==
    LET name == VersionDirName(version)
    IN  IF ~PathExists(dir, name)
        THEN [dir |-> dir, result |-> Raise("FileNotFoundError")]
        ELSE [dir |-> Pointed(Unlinked(
                        WithFile(dir, version, "metadata.json",
                            [dir.entries[name].files["metadata.json"]
                                EXCEPT !.status = "active"])), version, plat),
              result |-> ReturnNone]

SetActiveVersionOn(dir, version, plat) ==
    IF ~PathExists(dir, VersionDirName(version))
    THEN [dir |-> dir, result |-> Raise("FileNotFoundError")]
    ELSE [dir |-> Pointed(Unlinked(dir), version, plat), result |-> ReturnNone]

(***************************************************************************)
(* ProgramExecutor (executor/program_executor.py)                          *)
(***************************************************************************)
None == [some |-> FALSE, val |-> ""]

Some(v) == [some |-> TRUE, val |-> v]

\* Exceptions: class and message.  Exception subclasses are what
\* "except Exception" catches; SystemExit, KeyboardInterrupt, GeneratorExit
\* and BaseException itself are not among them.
Exc(class, msg) == [class |-> class, msg |-> msg]

ExceptionClasses ==
    {"SyntaxError", "ValueError", "ImportError", "NameError", "KeyError",
     "TimeoutError", "RuntimeError", "AttributeError"}

BaseOnlyClasses == {"SystemExit", "KeyboardInterrupt", "GeneratorExit", "BaseException"}

IsException(class) == class \in ExceptionClasses

\* what running a piece of Python ends with
Returns(v) == [kind |-> "return", value |-> v, exc |-> Exc("", "")]

Raises(class, msg) == [kind |-> "raise", value |-> "", exc |-> Exc(class, msg)]

Loops == [kind |-> "loop", value |-> "", exc |-> Exc("", "")]

\* Input texts, and the text str(input_data) of a map without the two keys
Texts == {"Buy now!", "Meeting at 2pm"}

StrOfDict == "{'other': 'x'}"

\* input_data maps offered to execute
SampleInputs ==
    {[k \in {"text"} |-> "Buy now!"],
     [k \in {"input"} |-> "Meeting at 2pm"],
     [k \in {"text", "input"} |-> IF k = "text" THEN "Meeting at 2pm" ELSE "Buy now!"],
     [k \in {"other"} |-> "x"]}

\* input_data.get("text", input_data.get("input", str(input_data)))
ExtractText(input) ==
    IF "text" \in DOMAIN input THEN input["text"]
    ELSE IF "input" \in DOMAIN input THEN input["input"]
    ELSE StrOfDict

\* Program sources, each standing for the Python text in its comment
SpamCode == <<"spam-if-buy">>        \* return "spam" if "buy" in text.lower() else "ham"

AlwaysSpamCode == <<"always-spam">>  \* return "spam"

SyntaxErrorCode == <<"def classify(">>  \* does not compile

NoEntryCode == <<"no-classify">>     \* defines no classify

RaisesCode == <<"raise-ValueError">>  \* classify raises ValueError("bad input")

ImportOsCode == <<"import-os">>      \* module level: import os

OpenCode == <<"open-file">>          \* classify calls open(...): not an allowed builtin

LoopCode == <<"while-True">>         \* classify never returns

ExitCode == <<"sys-exit">>           \* import collections; classify calls collections._sys.exit(1)

TimeoutCode == <<"raise-TimeoutError">>  \* classify raises the interpreter's TimeoutError, reached through collections._sys.modules

\* compile(program.code, ..., "exec")
Compiles(code) == code # SyntaxErrorCode

\* the module body with the interpreter's own __import__: import os succeeds
ModuleBodyUnrestricted(code) == Returns("")

\* exec(compiled, globals_dict, globals_dict): the module body under the
\* restricted builtins and safe_import
ModuleBody(code) ==
    IF code = ImportOsCode
    THEN Raises("ImportError", "Import of module 'os' is not allowed")
    ELSE Returns("")

\* "classify" in globals_dict
DefinesClassify(code) == code # NoEntryCode

\* classify_func(input_text)
Classify(code, text) ==
    CASE code = SpamCode -> Returns(IF text = "Buy now!" THEN "spam" ELSE "ham")
      [] code = AlwaysSpamCode -> Returns("spam")
      [] code = RaisesCode -> Raises("ValueError", "bad input")
      [] code = OpenCode -> Raises("NameError", "name 'open' is not defined")
      [] code = LoopCode -> Loops
      [] code = ExitCode -> Raises("SystemExit", "1")
      [] code = TimeoutCode -> Raises("TimeoutError", "slow")
      [] OTHER -> Returns("ham")

\* Programs offered to execute: id and code (the other fields are not read)
Program(id, code) == [id |-> id, code |-> code]

SamplePrograms ==
    {Program(1, SpamCode), Program(2, AlwaysSpamCode), Program(3, SyntaxErrorCode),
     Program(4, NoEntryCode), Program(5, RaisesCode), Program(6, ImportOsCode),
     Program(7, OpenCode), Program(8, LoopCode), Program(9, ExitCode),
     Program(10, TimeoutCode)}

ExecTask == "task-a"

TimeoutMs == 1000

\* _compile_program: the compiled form is cached, or SyntaxError is raised
CompileProgram(cache, program) ==
    IF Compiles(program.code)
    THEN [cache |-> [i \in (DOMAIN cache) \cup {program.id} |->
                        IF i = program.id THEN program.code ELSE cache[i]],
          end |-> Returns("")]
    ELSE [cache |-> cache,
          end |-> Raises("SyntaxError", "Failed to compile program")]

\* _execute_safe: runs the cached compiled form of program.id
ExecuteSafe(cache, program, input) ==
    LET compiled == cache[program.id]
    IN  IF ModuleBody(compiled).kind # "return" THEN ModuleBody(compiled)
        ELSE IF ~DefinesClassify(compiled)
             THEN Raises("ValueError", "Program does not define 'classify' function")
        ELSE Classify(compiled, ExtractText(input))

\* a record that execute marks as sampled for validation
ExecutionRecordSampled(program, task, input, output, status, message) ==
    [program_id |-> program.id, task_id |-> task, input |-> input,
     output |-> output, status |-> status, error_message |-> message,
     sampled_for_validation |-> TRUE, validation_id |-> None]

\* the ExecutionRecord that execute builds: not sampled, no validation
ExecutionRecord(program, task, input, output, status, message) ==
    [program_id |-> program.id, task_id |-> task, input |-> input,
     output |-> output, status |-> status, error_message |-> message,
     sampled_for_validation |-> FALSE, validation_id |-> None]

NoRecord ==
    [program_id |-> 0, task_id |-> "", input |-> [k \in {} |-> ""],
     output |-> None, status |-> "", error_message |-> None,
     sampled_for_validation |-> FALSE, validation_id |-> None]

\* how a call of execute ends: a record returned, an exception raised to
\* the caller, or no end at all
Returned(cache, record) ==
    [cache |-> cache, outcome |-> "returned", record |-> record, exc |-> Exc("", "")]

Escaped(cache, exc) ==
    [cache |-> cache, outcome |-> "raised", record |-> NoRecord, exc |-> exc]

Hangs(cache) ==
    [cache |-> cache, outcome |-> "hangs", record |-> NoRecord, exc |-> Exc("", "")]

\* an error record that keeps an output_data map
AfterTryKeepsOutput(cache, program, task, input, end) ==
    IF end.kind = "loop" THEN Hangs(cache)
    ELSE IF end.kind = "return"
         THEN Returned(cache, ExecutionRecord(program, task, input,
                                  Some(end.value), "success", None))
    ELSE IF end.exc.class = "TimeoutError"
         THEN Returned(cache, ExecutionRecord(program, task, input, None, "timeout",
                                  Some("Execution timeout after 1000ms")))
    ELSE IF IsException(end.exc.class)
         THEN Returned(cache, ExecutionRecord(program, task, input, Some(""), "error",
                                  Some(end.exc.msg)))
    ELSE Escaped(cache, end.exc)

\* the three exits of the try statement for a body that ended with end
AfterTry(cache, program, task, input, end) ==
    IF end.kind = "loop" THEN Hangs(cache)
    ELSE IF end.kind = "return"
         THEN Returned(cache, ExecutionRecord(program, task, input,
                                  Some(end.value), "success", None))
    ELSE IF end.exc.class = "TimeoutError"
         THEN Returned(cache, ExecutionRecord(program, task, input, None, "timeout",
                                  Some("Execution timeout after 1000ms")))
    ELSE IF IsException(end.exc.class)
         THEN Returned(cache, ExecutionRecord(program, task, input, None, "error",
                                  Some(end.exc.msg)))
    ELSE Escaped(cache, end.exc)

\* execute that compiles the source on every call
ExecuteAlwaysCompiles(cache, program, task, input) ==
    LET compiled == CompileProgram(cache, program)
    IN  [compiled |-> TRUE]
          @@ (IF compiled.end.kind # "return"
              THEN AfterTry(compiled.cache, program, task, input, compiled.end)
              ELSE AfterTry(compiled.cache, program, task, input,
                            ExecuteSafe(compiled.cache, program, input)))

\* ProgramExecutor.execute; compiled tells whether _compile_program was called
ExecuteOn(cache, program, task, input) ==
    LET compiled == IF program.id \in DOMAIN cache
                    THEN [cache |-> cache, end |-> Returns("")]
                    ELSE CompileProgram(cache, program)
    IN  [compiled |-> program.id \notin DOMAIN cache]
          @@ (IF compiled.end.kind # "return"
              THEN AfterTry(compiled.cache, program, task, input, compiled.end)
              ELSE AfterTry(compiled.cache, program, task, input,
                            ExecuteSafe(compiled.cache, program, input)))

\* the compile() calls counted for a program id
CompileCount(counts, id) == IF id \in DOMAIN counts THEN counts[id] ELSE 0

Counted(counts, id) ==
    [i \in (DOMAIN counts) \cup {id} |->
        IF i = id THEN CompileCount(counts, id) + 1 ELSE counts[i]]

EmptyCache == [i \in {} |-> <<>>]

NoProgram == Program(0, <<>>)

NoExecution ==
    [program |-> NoProgram, outcome |-> "none", record |-> NoRecord, exc |-> Exc("", ""),
     compiled |-> FALSE]

(***************************************************************************)
(* RandomSampler (sampler/random_sampler.py)                               *)
(***************************************************************************)
Min(a, b) == IF a <= b THEN a ELSE b

Max(a, b) == IF a >= b THEN a ELSE b

\* Output texts are sequences of characters; output_data is None or
\* {"result": text}
NoText == [some |-> FALSE, val |-> <<>>]

SomeText(t) == [some |-> TRUE, val |-> t]

SpamText == <<"s", "p", "a", "m">>

HamText == <<"h", "a", "m">>

\* the status of a failed execution at Python index i: errors and timeouts
\* both occur in a batch
FailureAt(i) == IF i % 2 = 0 THEN "error" ELSE "timeout"

\* the record execute returned for test case i (its id stands for the uuid4)
BatchRecord(i, ok) ==
    [id |-> i + 1, program_id |-> 1, task_id |-> ExecTask,
     input |-> [k \in {"text"} |-> "Buy now!"],
     output |-> IF ok THEN SomeText(SpamText) ELSE NoText,
     status |-> IF ok THEN "success" ELSE FailureAt(i),
     error_message |-> IF ok THEN None ELSE Some("bad input"),
     sampled_for_validation |-> FALSE, validation_id |-> None]

\* a batch of n executions of which those at the indices in succ succeeded
Batch(n, succ) == [p \in 1..n |-> BatchRecord(p - 1, (p - 1) \in succ)]

Batches == UNION {{Batch(n, succ) : succ \in SUBSET (0..(n - 1))} : n \in 0..MaxBatch}

\* sampling_rate as a fraction num / RateDen; quarters are exact in binary
\* floating point, so int(total_count * sampling_rate) is the exact floor.
\* The rates offered are 0.0, 0.75 and 1.0; 1.25 is out of range.
RateDen == 4

Rates == {0, 3, 4}

InvalidRate == RateDen + 1

\* seed: NoSeed stands for None
NoSeed == -1

Seeds == {NoSeed, 1, 2}

\* The generator of the random module, shared by the whole process: a
\* state, seed(), and the draws sample() makes.  A linear congruential
\* generator of full period stands for the Mersenne Twister.
RngModulus == 8

RngStates == 0..(RngModulus - 1)

SeedState(seed) == seed % RngModulus

NextRng(state) == (5 * state + 3) % RngModulus

\* _randbelow(n)
RandBelow(state, n) == state % n

\* random.sample(population, k): k draws from a shrinking pool
RECURSIVE RandomSample(_, _, _)
RandomSample(pool, k, state) ==
    IF k = 0 THEN [result |-> <<>>, state |-> state]
    ELSE LET n == Len(pool)
             j == RandBelow(state, n) + 1
             moved == [p \in 1..(n - 1) |-> IF p = j THEN pool[n] ELSE pool[p]]
             rest == RandomSample(moved, k - 1, NextRng(state))
         IN  [result |-> <<pool[j]>> \o rest.result, state |-> rest.state]

\* sorted(sampled_indices)
Sorted(seq) == SortSeq(seq, LAMBDA a, b : a < b)

\* [i for i, exec in enumerate(executions) if exec.status.value == "success"]
SuccessfulIndices(executions) ==
    Sorted(SelectSeq([p \in 1..Len(executions) |-> p - 1],
                     LAMBDA i : executions[i + 1].status = "success"))

\* max(1, int(total_count * self.sampling_rate))
SampleCount(total, rate) == Max(1, (total * rate) \div RateDen)

\* the sample returned in the order drawn
SelectUnsorted(executions, rate, state) ==
    LET successful == SuccessfulIndices(executions)
    IN  IF successful = <<>> THEN [indices |-> <<>>, state |-> state]
        ELSE LET drawn == RandomSample(successful,
                              Min(SampleCount(Len(executions), rate), Len(successful)),
                              state)
             IN  [indices |-> drawn.result, state |-> drawn.state]

\* RandomSampler.select_for_validation: the indices returned and the
\* generator state left behind
SelectForValidation(executions, rate, state) ==
    LET successful == SuccessfulIndices(executions)
    IN  IF successful = <<>> THEN [indices |-> <<>>, state |-> state]
        ELSE LET drawn == RandomSample(successful,
                              Min(SampleCount(Len(executions), rate), Len(successful)),
                              state)
             IN  [indices |-> Sorted(drawn.result), state |-> drawn.state]

\* executions[idx]: the position of a Python index in a list of n, 0 when
\* the index is out of range
PyIndex(n, idx) ==
    IF 0 <= idx /\ idx < n THEN idx + 1
    ELSE IF idx < 0 /\ -n <= idx THEN n + idx + 1
    ELSE 0

\* the loop of mark_sampled over the whole list, marking every record
MarkSampledAll(executions, indices) ==
    [executions |-> [p \in DOMAIN executions |->
                        [executions[p] EXCEPT !.sampled_for_validation = TRUE]],
     raised |-> ""]

\* RandomSampler.mark_sampled: one assignment per index, IndexError at
\* the first index out of range
RECURSIVE MarkSampledOn(_, _)
MarkSampledOn(executions, indices) ==
    IF indices = <<>> THEN [executions |-> executions, raised |-> ""]
    ELSE LET p == PyIndex(Len(executions), Head(indices))
         IN  IF p = 0 THEN [executions |-> executions, raised |-> "IndexError"]
             ELSE MarkSampledOn(
                    [executions EXCEPT ![p].sampled_for_validation = TRUE],
                    Tail(indices))

(***************************************************************************)
(* ComparisonEngine (validator/comparison_engine.py)                       *)
(***************************************************************************)
ComparisonMethod == {"exact", "semantic", "fuzzy", "structured"}

\* str.lower() on the letters that occur in the outputs
UpperToLower == [S |-> "s", P |-> "p", A |-> "a", M |-> "m", H |-> "h"]

PyLower(s) ==
    [i \in DOMAIN s |-> IF s[i] \in DOMAIN UpperToLower THEN UpperToLower[s[i]] ELSE s[i]]

\* _extract_output: "" for None, else str(output_data.get("result", ""))
ExtractOutput(output) == IF output.some THEN output.val ELSE <<>>

\* normalisation that trims and keeps the case
NormalizeKeepsCase(output) == Strip(output)

\* _normalize_output: output.strip().lower()
NormalizeOutput(output) == PyLower(Strip(output))

\* _exact_match: (match, similarity), similarity 1 for 1.0 and 0 for 0.0
ExactMatch(output1, output2) ==
    [match |-> output1 = output2, similarity |-> IF output1 = output2 THEN 1 ELSE 0]

\* oracle_result as LLMOracle.query returns it
OracleResult(output) == [output |-> output, cost |-> 3, latency_ms |-> 5]

NoDetails == [some |-> FALSE, program |-> <<>>, oracle |-> <<>>]

\* f"Program output '{program_output}' != Oracle output '{oracle_output}'"
Details(program_output, oracle_output) ==
    [some |-> TRUE, program |-> program_output, oracle |-> oracle_output]

\* a record that reports every tier as passed and never a failure type
ValidationRecordAllTiersPass(execution, oracle_result, program_output, verdict, method) ==
    [execution_id |-> execution.id,
     program_id |-> execution.program_id,
     oracle_output |-> oracle_result.output,
     oracle_provider |-> "openai",
     oracle_model |-> "gpt-4",
     oracle_cost |-> oracle_result.cost,
     oracle_latency_ms |-> oracle_result.latency_ms,
     match |-> verdict.match,
     similarity_score |-> verdict.similarity,
     comparison_method |-> method,
     failure_type |-> None,
     failure_category |-> IF verdict.match THEN None ELSE Some("classification_error"),
     failure_details |-> IF verdict.match THEN NoDetails
                         ELSE Details(program_output, oracle_result.output),
     tier1_passed |-> TRUE,
     tier2_passed |-> TRUE,
     tier3_passed |-> TRUE]

\* the ValidationRecord that compare builds
ValidationRecord(execution, oracle_result, program_output, verdict, method) ==
    [execution_id |-> execution.id,
     program_id |-> execution.program_id,
     oracle_output |-> oracle_result.output,
     oracle_provider |-> "openai",
     oracle_model |-> "gpt-4",
     oracle_cost |-> oracle_result.cost,
     oracle_latency_ms |-> oracle_result.latency_ms,
     match |-> verdict.match,
     similarity_score |-> verdict.similarity,
     comparison_method |-> method,
     failure_type |-> IF verdict.match THEN None ELSE Some("logic_error"),
     failure_category |-> IF verdict.match THEN None ELSE Some("classification_error"),
     failure_details |-> IF verdict.match THEN NoDetails
                         ELSE Details(program_output, oracle_result.output),
     tier1_passed |-> TRUE,
     tier2_passed |-> TRUE,
     tier3_passed |-> verdict.match]

NoValidation ==
    [execution_id |-> 0, program_id |-> 0, oracle_output |-> <<>>,
     oracle_provider |-> "", oracle_model |-> "", oracle_cost |-> 0,
     oracle_latency_ms |-> 0, match |-> FALSE, similarity_score |-> 0,
     comparison_method |-> "", failure_type |-> None, failure_category |-> None,
     failure_details |-> NoDetails, tier1_passed |-> FALSE, tier2_passed |-> FALSE,
     tier3_passed |-> FALSE]

\* a call of compare that returned its record
Validated(record) == [raised |-> "", validation |-> record]

\* ComparisonEngine.compare: every method takes the exact-match branch
Compare(execution, oracle_result, method) ==
    LET program_output == ExtractOutput(execution.output)
        program_output_norm == NormalizeOutput(program_output)
        oracle_output_norm == NormalizeOutput(oracle_result.output)
        verdict == IF method = "exact"
                   THEN ExactMatch(program_output_norm, oracle_output_norm)
                   ELSE ExactMatch(program_output_norm, oracle_output_norm)
    IN  Validated(ValidationRecord(execution, oracle_result, program_output,
                                   verdict, method))

(***************************************************************************)
(* DatasetManager (runtime/dataset_manager.py): dates and file names       *)
(***************************************************************************)
\* A date: year, month, day.  The clock runs through the first days of
\* January 2024; Date(n) is the n-th of that month, and n <= 0 reaches back
\* into December 2023.
Date(n) ==
    IF n >= 1 THEN [year |-> 2024, month |-> 1, day |-> n]
    ELSE [year |-> 2023, month |-> 12, day |-> 31 + n]

\* a datetime: a date and the time of day elapsed since midnight
DateTime(date, tod) == [date |-> date, tod |-> tod]

\* datetime < datetime
DateTimeLess(a, b) ==
    \/ a.date.year < b.date.year
    \/ a.date.year = b.date.year /\ a.date.month < b.date.month
    \/ a.date.year = b.date.year /\ a.date.month = b.date.month
         /\ a.date.day < b.date.day
    \/ a.date = b.date /\ a.tod < b.tod

\* a number of at most two digits, zero-padded as %m and %d print it
Pad2(n) == IF n < 10 THEN <<"0">> \o StrNat(n) ELSE StrNat(n)

\* strftime("%Y-%m-%d")
Strftime(date) ==
    StrNat(date.year) \o <<"-">> \o Pad2(date.month) \o <<"-">> \o Pad2(date.day)

\* the text before the first "-" and the text after it
RECURSIVE UpToDash(_)
UpToDash(s) ==
    IF s = <<>> \/ Head(s) = "-" THEN <<>> ELSE <<Head(s)>> \o UpToDash(Tail(s))

AfterDash(s) ==
    IF Len(UpToDash(s)) = Len(s) THEN <<>> ELSE SubSeq(s, Len(UpToDash(s)) + 2, Len(s))

AllDigits(s) == \A i \in DOMAIN s : IsDigit(s[i])

RECURSIVE DigitsValue(_)
DigitsValue(s) ==
    IF s = <<>> THEN 0 ELSE DigitsValue(SubSeq(s, 1, Len(s) - 1)) * 10 + DigitVal(s[Len(s)])

DaysInMonth(year, month) ==
    IF month = 2 THEN (IF year % 4 = 0 /\ (year % 100 # 0 \/ year % 400 = 0) THEN 29 ELSE 28)
    ELSE IF month \in {4, 6, 9, 11} THEN 30 ELSE 31

NoDate == [ok |-> FALSE, date |-> Date(1)]

\* datetime.strptime(text, "%Y-%m-%d"): four digits, then month and day of
\* one or two digits each (padding is not required), within the calendar;
\* anything else is a ValueError
Strptime(text) ==
    LET y == UpToDash(text)
        m == UpToDash(AfterDash(text))
        d == AfterDash(AfterDash(text))
    IN  IF /\ Len(y) = 4 /\ AllDigits(y)
           /\ Len(m) \in {1, 2} /\ AllDigits(m)
           /\ Len(d) \in {1, 2} /\ AllDigits(d)
           /\ Len(text) = Len(y) + Len(m) + Len(d) + 2
           /\ DigitsValue(y) >= 1
           /\ DigitsValue(m) \in 1..12
           /\ DigitsValue(d) \in 1..DaysInMonth(DigitsValue(y), DigitsValue(m))
        THEN [ok |-> TRUE,
              date |-> [year |-> DigitsValue(y), month |-> DigitsValue(m),
                        day |-> DigitsValue(d)]]
        ELSE NoDate

Jsonl == <<".", "j", "s", "o", "n", "l">>

\* f"{today}.jsonl"
LogFileName(date_text) == date_text \o Jsonl

\* f"daily-stats-{date}.json"; the prefix is written as one character
StatsFileName(date_text) == <<"daily-stats-">> \o date_text \o <<".", "j", "s", "o", "n">>

\* glob("*.jsonl")
MatchesJsonl(name) ==
    Len(name) >= Len(Jsonl) /\ SubSeq(name, Len(name) - Len(Jsonl) + 1, Len(name)) = Jsonl

\* Path.stem of a name that ends in .jsonl
Stem(name) == SubSeq(name, 1, Len(name) - Len(Jsonl))

(***************************************************************************)
(* DatasetManager: the JSONL log files                                     *)
(***************************************************************************)
\* the latency of a record whose latency_ms is None
NoLatency == -1

\* DatasetManager(retention_days=7)
DefaultRetentionDays == 7

\* An ExecutionRecord as it is logged: the record execute returns, with
\* its id and latency_ms
LoggedRecord(id, status, latency, sampled) ==
    [id |-> id, latency_ms |-> latency]
        @@ [ExecutionRecord(Program(1, SpamCode), ExecTask,
                            [k \in {"text"} |-> "Buy now!"],
                            IF status = "success" THEN Some("spam") ELSE None,
                            status,
                            IF status = "success" THEN None ELSE Some("bad input"))
              EXCEPT !.sampled_for_validation = sampled]

NoLogged == LoggedRecord(0, "", 0, FALSE)

\* The text of a file is a sequence of cells.  json.dumps(model_dump) of a
\* record is a run of cells, as many as SerializedSize tells (records with
\* an output are longer than those without); Newline is the line end.
SerializedSize(record) == IF record.output.some THEN 4 ELSE 2

Cell(record, part) == [rec |-> record, part |-> part]

Newline == Cell(NoLogged, 0)

\* json.dumps(execution.model_dump(mode="json"))
Dumps(record) == [i \in 1..SerializedSize(record) |-> Cell(record, i)]

\* json.dumps(execution_dict) + "\n"
DumpsLine(record) == Dumps(record) \o <<Newline>>

\* "for line in f": the lines of a text, line ends removed
RECURSIVE SplitLines(_, _)
SplitLines(text, line) ==
    IF text = <<>> THEN (IF line = <<>> THEN <<>> ELSE <<line>>)
    ELSE IF Head(text) = Newline THEN <<line>> \o SplitLines(Tail(text), <<>>)
    ELSE SplitLines(Tail(text), Append(line, Head(text)))

\* json.loads(line): the record, when the line is the whole text of one
LoadsOk(line) == line # <<>> /\ line = Dumps(line[1].rec)

\* the day's file under executions/: absent, a directory, or its text
LogFile(dir, date_text) ==
    IF PathExists(dir, LogFileName(date_text)) THEN dir.entries[LogFileName(date_text)]
    ELSE FileEntry(<<>>)

\* the names under executions/ and what they hold
LogEntries(data) == data.executions.entries

\* a call of the dataset manager that returned or raised
DataReturn(dataset, value) == [dataset |-> dataset, raised |-> "", value |-> value]

DataRaise(dataset, exc) == [dataset |-> dataset, raised |-> exc, value |-> <<>>]

\* datasets/<task>: the executions and analytics directories
NoDataset == [executions |-> NoDir, validations |-> NoDir, analytics |-> NoDir]

\* initialize_task: the directories exist afterwards
InitializeTaskOn(dataset) ==
    [executions |-> Dir(dataset.executions.entries),
     validations |-> Dir(dataset.validations.entries),
     analytics |-> Dir(dataset.analytics.entries)]

\* log_execution that replaces the file by the new line
LogExecutionTruncates(dataset, today, record) ==
    DataReturn([dataset EXCEPT !.executions =
                   WithEntry(dataset.executions, LogFileName(Strftime(today)),
                             FileEntry(DumpsLine(record)))],
               <<>>)

\* log_execution: one line appended to today's file
LogExecutionOn(dataset, today, record) ==
    LET name == LogFileName(Strftime(today))
        file == LogFile(dataset.executions, Strftime(today))
    IN  IF file.kind # "file" THEN DataRaise(dataset, "IsADirectoryError")
        ELSE DataReturn([dataset EXCEPT !.executions =
                            WithEntry(dataset.executions, name,
                                      FileEntry(file.content \o DumpsLine(record)))],
                        <<>>)

\* read_execution_logs: the records of the non-blank lines, in file order
ReadExecutionLogsOn(dataset, date_text) ==
    IF ~PathExists(dataset.executions, LogFileName(date_text))
    THEN DataReturn(dataset, <<>>)
    ELSE IF LogFile(dataset.executions, date_text).kind # "file"
    THEN DataRaise(dataset, "IsADirectoryError")
    ELSE LET lines == SelectSeq(SplitLines(LogFile(dataset.executions, date_text).content,
                                           <<>>),
                                LAMBDA line : line # <<>>)
         IN  IF \E i \in DOMAIN lines : ~LoadsOk(lines[i])
             THEN DataRaise(dataset, "JSONDecodeError")
             ELSE DataReturn(dataset, [i \in DOMAIN lines |-> lines[i][1].rec])

(***************************************************************************)
(* DatasetManager: daily analytics and retention                           *)
(***************************************************************************)
\* a quotient of two ints, kept as the pair; 0.0 is Ratio(0, 1)
Ratio(num, den) == [num |-> num, den |-> den]

RECURSIVE SeqSum(_)
SeqSum(seq) == IF seq = <<>> THEN 0 ELSE Head(seq) + SeqSum(Tail(seq))

\* sum(1 for e in executions if ...)
CountWhere(seq, Test(_)) == Len(SelectSeq(seq, Test))

\* latencies of the successful executions that carry one
SuccessLatencies(executions) ==
    LET kept == SelectSeq(executions,
                    LAMBDA e : e.status = "success" /\ e.latency_ms # NoLatency)
    IN  [i \in DOMAIN kept |-> kept[i].latency_ms]

\* the analytics of a day without executions
ZeroAnalytics(date_text) ==
    [date |-> date_text, total_executions |-> 0, successful_executions |-> 0,
     failed_executions |-> 0, success_rate |-> Ratio(0, 1), sampled_count |-> 0,
     sampling_rate |-> Ratio(0, 1), avg_latency_ms |-> Ratio(0, 1),
     p50_latency_ms |-> 0, p99_latency_ms |-> 0]

\* an index counted from the top of the sorted list
PercentileIndexFromTop(n, p) == n - 1 - (n * p) \div 100

\* int(len(sorted_latencies) * 0.50) and int(len(sorted_latencies) * 0.99),
\* p in hundredths; the float product truncates to the exact quotient
PercentileIndex(n, p) == (n * p) \div 100

\* the aggregates of generate_daily_analytics over the records read
AnalyticsOf(date_text, executions) ==
    IF executions = <<>> THEN ZeroAnalytics(date_text)
    ELSE LET total == Len(executions)
             successful == CountWhere(executions, LAMBDA e : e.status = "success")
             sampled == CountWhere(executions, LAMBDA e : e.sampled_for_validation)
             latencies == SuccessLatencies(executions)
             sorted_latencies == SortSeq(latencies, LAMBDA x, y : x < y)
         IN  [date |-> date_text,
              total_executions |-> total,
              successful_executions |-> successful,
              failed_executions |-> total - successful,
              success_rate |-> Ratio(successful, total),
              sampled_count |-> sampled,
              sampling_rate |-> Ratio(sampled, total),
              avg_latency_ms |-> IF latencies = <<>> THEN Ratio(0, 1)
                                 ELSE Ratio(SeqSum(latencies), Len(latencies)),
              p50_latency_ms |-> IF latencies = <<>> THEN 0
                                 ELSE sorted_latencies[PercentileIndex(Len(latencies), 50) + 1],
              p99_latency_ms |-> IF latencies = <<>> THEN 0
                                 ELSE sorted_latencies[PercentileIndex(Len(latencies), 99) + 1]]

\* the daily-stats file of a date, when there is one
StatsFile(dataset, date_text) ==
    IF PathExists(dataset.analytics, StatsFileName(date_text))
    THEN dataset.analytics.entries[StatsFileName(date_text)]
    ELSE FileEntry(ZeroAnalytics(<<>>))

\* generate_daily_analytics that answers from the persisted daily-stats file
GenerateDailyAnalyticsCached(dataset, date_text) ==
    LET read == ReadExecutionLogsOn(dataset, date_text)
        analytics == IF PathExists(dataset.analytics, StatsFileName(date_text))
                     THEN StatsFile(dataset, date_text).content
                     ELSE AnalyticsOf(date_text, read.value)
    IN  IF read.raised # "" THEN read
        ELSE DataReturn([dataset EXCEPT !.analytics =
                            WithEntry(dataset.analytics, StatsFileName(date_text),
                                      FileEntry(analytics))],
                        analytics)

\* analytics whose totals count the successful executions only
GenerateDailyAnalyticsOfSuccesses(dataset, date_text) ==
    LET read == ReadExecutionLogsOn(dataset, date_text)
        analytics == AnalyticsOf(date_text,
                         SelectSeq(read.value, LAMBDA e : e.status = "success"))
    IN  IF read.raised # "" THEN read
        ELSE DataReturn([dataset EXCEPT !.analytics =
                            WithEntry(dataset.analytics, StatsFileName(date_text),
                                      FileEntry(analytics))],
                        analytics)

\* generate_daily_analytics for a date: read the log, aggregate, write the
\* daily-stats file, return the aggregates
GenerateDailyAnalyticsOn(dataset, date_text) ==
    LET read == ReadExecutionLogsOn(dataset, date_text)
        analytics == AnalyticsOf(date_text, read.value)
    IN  IF read.raised # "" THEN read
        ELSE DataReturn([dataset EXCEPT !.analytics =
                            WithEntry(dataset.analytics, StatsFileName(date_text),
                                      FileEntry(analytics))],
                        analytics)

\* the files of executions/ that apply_retention_policy finds too old at
\* the clock reading now with the given retention_days
Expired(dir, now, retention_days) ==
    {name \in DOMAIN dir.entries :
        /\ MatchesJsonl(name)
        /\ Strptime(Stem(name)).ok
        /\ DateTimeLess(DateTime(Strptime(Stem(name)).date, 0),
                        DateTime(Date(now.day - retention_days), now.tod))}

\* retention that removes every old file, also one whose name is not a date
ApplyRetentionPolicyAnyName(dataset, now, retention_days) ==
    LET dir == dataset.executions
        removed == {name \in DOMAIN dir.entries :
                        /\ MatchesJsonl(name)
                        /\ dir.entries[name].kind = "file"
                        /\ ~Strptime(Stem(name)).ok \/ name \in Expired(dir, now, retention_days)}
    IN  DataReturn([dataset EXCEPT !.executions =
                       Dir([n \in (DOMAIN dir.entries) \ removed |-> dir.entries[n]])],
                   Cardinality(removed))

\* retention that compares dates only, keeping the file dated at the cutoff
ApplyRetentionPolicyByDay(dataset, now, retention_days) ==
    LET dir == dataset.executions
        removed == {name \in Expired(dir, [now EXCEPT !.tod = 0], retention_days) :
                        dir.entries[name].kind = "file"}
    IN  IF ~dir.exists THEN DataReturn(dataset, 0)
        ELSE DataReturn([dataset EXCEPT !.executions =
                            Dir([n \in (DOMAIN dir.entries) \ removed |-> dir.entries[n]])],
                        Cardinality(removed))

\* apply_retention_policy: unlink of each expired file; a directory under
\* such a name makes unlink raise OSError and is skipped
ApplyRetentionPolicyOn(dataset, now, retention_days) ==
    LET dir == dataset.executions
        removed == {name \in Expired(dir, now, retention_days) :
                        dir.entries[name].kind = "file"}
    IN  IF ~dir.exists THEN DataReturn(dataset, 0)
        ELSE DataReturn([dataset EXCEPT !.executions =
                            Dir([n \in (DOMAIN dir.entries) \ removed |-> dir.entries[n]])],
                        Cardinality(removed))

(***************************************************************************)
(* EdgeRuntime (runtime/api.py)                                            *)
(***************************************************************************)
NoEdge == [made |-> FALSE, task |-> "", artifact |-> NoArtifact, cache |-> EmptyCache]

Edge(task, artifact) ==
    [made |-> TRUE, task |-> task, artifact |-> artifact, cache |-> EmptyCache]

\* a constructor that yields a runtime without artifact when none is active
EdgeConstructSoft(dir, data, task) ==
    LET found == GetActiveArtifactOn(dir)
    IN  [dataset |-> InitializeTaskOn(data),
         raised |-> IF found.tag = "raise" THEN found.exc ELSE "",
         edge |-> IF found.tag = "raise" THEN NoEdge ELSE Edge(task, found.artifact)]

\* EdgeRuntime.__init__: initialize_task, then the active artifact or ValueError
EdgeConstructOn(dir, data, task) ==
    LET found == GetActiveArtifactOn(dir)
    IN  [dataset |-> InitializeTaskOn(data),
         raised |-> IF found.tag = "raise" THEN found.exc
                    ELSE IF found.tag = "none" THEN "ValueError"
                    ELSE "",
         edge |-> IF found.tag = "artifact" THEN Edge(task, found.artifact) ELSE NoEdge]

\* how a call of EdgeRuntime.execute ends
EdgeEnd(edge, data, outcome, raised, record) ==
    [edge |-> edge, dataset |-> data, outcome |-> outcome, raised |-> raised,
     record |-> record]

\* EdgeRuntime.execute: executor.execute, the measured latency set on the
\* record, log_execution, then output_data.get("result", "")
EdgeExecuteOn(edge, data, today, input, latency, id) ==
    LET r == ExecuteOn(edge.cache, Program(edge.artifact.id, edge.artifact.code),
                       edge.task, input)
        after == [edge EXCEPT !.cache = r.cache]
        record == [id |-> id, latency_ms |-> latency] @@ r.record
        log == LogExecutionOn(data, today, record)
    IN  IF r.outcome = "hangs" THEN EdgeEnd(after, data, "hangs", "", NoLogged)
        ELSE IF r.outcome = "raised"
             THEN EdgeEnd(after, data, "raised", r.exc.class, NoLogged)
        ELSE IF log.raised # ""
             THEN EdgeEnd(after, data, "raised", log.raised, NoLogged)
        ELSE IF ~record.output.some
             THEN EdgeEnd(after, log.dataset, "raised", "AttributeError", record)
        ELSE EdgeEnd(after, log.dataset, "returned", "", record)

\* a health endpoint that looks the active version up in artifacts/<task>
HealthFromDisk(edge, dir) ==
    LET found == GetActiveArtifactOn(dir)
    IN  [task_id |-> edge.task,
         active_version |-> IF found.tag = "artifact" THEN found.artifact.version
                            ELSE 0]

\* GET /health: the task and the version of the artifact the runtime
\* holds; dir, artifacts/<task> at the time of the request, is not read
HealthOn(edge, dir) ==
    [task_id |-> edge.task, active_version |-> edge.artifact.version]

\* the records with a truthy latency_ms
WithLatency(executions) ==
    LET kept == SelectSeq(executions,
                    LAMBDA e : e.latency_ms # NoLatency /\ e.latency_ms # 0)
    IN  [i \in DOMAIN kept |-> kept[i].latency_ms]

\* EdgeRuntime.get_metrics over today's log
GetMetricsOn(data, today) ==
    LET read == ReadExecutionLogsOn(data, Strftime(today))
        latencies == WithLatency(read.value)
    IN  [raised |-> read.raised,
         executions_today |-> Len(read.value),
         avg_latency_ms |-> IF latencies = <<>> THEN Ratio(0, 1)
                            ELSE Ratio(SeqSum(latencies), Len(latencies))]

(***************************************************************************)
(* State                                                                   *)
(***************************************************************************)
VARIABLES
    disk,       \* artifacts/: the directory of every task
    platform,   \* the host the store runs on
    written,    \* history: per task, the artifact last passed to store_artifact per version
    activated,  \* history: per task, the version of the last set_active_version that returned (0: none)
    last,       \* the call that completed last, with its result
    writer,     \* a set_active_version call in progress, step by step
    reader,     \* a get_active_artifact call in progress, step by step
    compiledCache,  \* ProgramExecutor._compiled_cache: program id -> compiled code
    executed,   \* the last ProgramExecutor.execute call: its program and how it ended
    executions, \* the batch of ExecutionRecords handed to the sampler
    rngState,   \* the state of the random module's shared generator
    samplers,   \* the RandomSampler objects constructed so far
    sampled,    \* the last RandomSampler call (constructor or select_for_validation)
    marking,    \* the last mark_sampled call
    pipe,       \* the sample-then-validate run of the benchmark script
    compared,   \* the last ComparisonEngine.compare call
    compiles,   \* history: per program id, the compile() calls since the cache was last empty
    dataset,    \* datasets/<task>: the executions and analytics directories
    now,        \* the clock: day of January 2024 and time of day
    retention,  \* DatasetManager.retention_days
    logged,     \* history: the log_execution calls that returned, in call order
    dataCall,   \* the last DatasetManager call, with its result
    appenders,  \* concurrent log_execution calls, each at its position
    edges,      \* the EdgeRuntime objects
    served,     \* the last EdgeRuntime call, with its result
    callers,    \* threads inside ProgramExecutor.execute, each at its position
    storing,    \* a store_artifact call in progress, file by file
    fetching,   \* a get_artifact call in progress, file by file
    request     \* a LoopaiClient._request call in progress, attempt by attempt

storeVars == <<disk, platform, written, activated, last>>

raceVars == <<writer, reader>>

execVars == <<compiledCache, executed, compiles>>

sampleVars == <<executions, rngState, samplers, sampled, marking>>

validateVars == <<pipe, compared>>

dataVars == <<dataset, now, retention, logged, dataCall>>

edgeVars == <<edges, served>>

\* the dataset manager, its concurrent callers and the edge runtime
datasetVars == <<dataVars, appenders, edgeVars>>

\* calls followed step by step: executor threads, an overwrite and a read
\* of a stored version, a client request
callVars == <<callers, storing, fetching, request>>

\* what the store's calls that run to completion leave alone
nonStoreVars == <<raceVars, execVars, sampleVars, validateVars, datasetVars, callVars>>

\* what the interleaved store calls leave alone
beyondStoreVars == <<execVars, sampleVars, validateVars, datasetVars, callVars>>

\* what the executor leaves alone
nonExecVars == <<storeVars, raceVars, sampleVars, validateVars, datasetVars, callVars>>

\* what the sampler and the validation leave alone
runtimeVars == <<storeVars, raceVars, execVars, datasetVars, callVars>>

vars == <<storeVars, raceVars, execVars, sampleVars, validateVars, datasetVars, callVars>>

NoCall ==
    [op |-> "none", task |-> "", version |-> 0, artifact |-> NoArtifact,
     existed |-> FALSE, prev |-> 0, result |-> ReturnNone, listing |-> <<>>]

Call(op, task, version, result) ==
    [op |-> op, task |-> task, version |-> version, artifact |-> NoArtifact,
     existed |-> FALSE, prev |-> 0, result |-> result, listing |-> <<>>]

\* versions a caller may ask for: MaxVersion + 1 is never stored
RequestVersions == 1..(MaxVersion + 1)

\* artifacts/ before the first call: empty, or with a task directory that
\* holds entries the store did not create
InitialDisks ==
    {[t \in Tasks |-> NoDir],
     [t \in Tasks |-> IF t = "task-a" THEN Dir(ForeignDir) ELSE NoDir]}

SamplerIds == {1, 2}

NoSampler == [made |-> FALSE, rate |-> 0, seed |-> NoSeed]

Sampler(rate, seed) == [made |-> TRUE, rate |-> rate, seed |-> seed]

NoSampling == [op |-> "none", id |-> 0, raised |-> "", indices |-> <<>>]

NoMarking == [called |-> FALSE, indices |-> <<>>, before |-> <<>>, raised |-> ""]

IdlePipe ==
    [pc |-> "idle", rate |-> 0, indices |-> <<>>, pos |-> 0,
     validations |-> <<>>, raised |-> ""]

NoComparison ==
    [called |-> FALSE, execution |-> BatchRecord(0, FALSE),
     oracle_result |-> OracleResult(<<>>), method |-> "",
     result |-> Validated(NoValidation)]

\* no sampler constructed, no batch
IdleSampling ==
    /\ executions = <<>>
    /\ rngState = 0
    /\ samplers = [i \in SamplerIds |-> NoSampler]
    /\ sampled = NoSampling
    /\ marking = NoMarking

\* no validation under way
IdleValidation ==
    /\ pipe = IdlePipe
    /\ compared = NoComparison

\* no compile() call yet
NoCompiles == [i \in {} |-> 0]

\* the clock at the start: midnight at the start of 1 January 2024
Midnight == 0

StartOfClock == [day |-> 1, tod |-> Midnight]

NoDataCall ==
    [op |-> "none", date |-> <<>>, record |-> NoLogged, raised |-> "",
     records |-> <<>>, analytics |-> ZeroAnalytics(<<>>), stale |-> FALSE,
     count |-> 0]

DataCall(op, date_text, result) ==
    [NoDataCall EXCEPT !.op = op, !.date = date_text, !.raised = result.raised]

Appenders == {1, 2}

IdleAppender == [pc |-> "idle", record |-> NoLogged, offset |-> 0]

EdgeIds == {1, 2}

\* the last EdgeRuntime call; calls is the history of the days of the
\* execute calls that ended
NoServed ==
    [op |-> "none", edge |-> 0, outcome |-> "", raised |-> "", record |-> NoLogged,
     executions_today |-> 0, avg_latency_ms |-> Ratio(0, 1), calls |-> <<>>,
     active_version |-> 0]

ExecCallers == {1, 2}

IdleCaller == [pc |-> "idle", program |-> NoProgram, miss |-> FALSE, result |-> NoExecution]

IdleStoring == [pc |-> "idle", artifact |-> NoArtifact]

IdleFetching ==
    [pc |-> "idle", version |-> 0, metadata |-> ModelDump(NoArtifact), code |-> <<>>,
     result |-> ReturnNone]

\* no reply of the server
NoReply == [kind |-> "none", status |-> 0, body |-> ""]

\* the request loop of the SDK client: attempt is the loop variable, replies
\* the history of what the attempts met, slept the delays slept between them
IdleRequest ==
    [pc |-> "idle", attempt |-> 0, max_retries |-> 0, replies |-> <<>>,
     outcome |-> "", raised |-> "", slept |-> <<>>]

\* no call under way
IdleCalls ==
    /\ callers = [c \in ExecCallers |-> IdleCaller]
    /\ storing = IdleStoring
    /\ fetching = IdleFetching
    /\ request = IdleRequest

\* no dataset manager call yet, no edge runtime constructed
IdleDataset ==
    /\ dataset = NoDataset
    /\ now = StartOfClock
    /\ retention = DefaultRetentionDays
    /\ logged = <<>>
    /\ dataCall = NoDataCall
    /\ appenders = [a \in Appenders |-> IdleAppender]
    /\ edges = [e \in EdgeIds |-> NoEdge]
    /\ served = NoServed
    /\ IdleCalls

IdleWriter == [pc |-> "idle", version |-> 0]

IdleReader == [pc |-> "idle", version |-> 0, allowed |-> {}, result |-> ReturnNone]

Init ==
    /\ disk \in InitialDisks
    /\ platform \in Platforms
    /\ written = [t \in Tasks |-> EmptyDir]
    /\ activated = [t \in Tasks |-> 0]
    /\ last = NoCall
    /\ writer = IdleWriter
    /\ reader = IdleReader
    /\ compiledCache = EmptyCache
    /\ executed = NoExecution
    /\ compiles = NoCompiles
    /\ IdleSampling
    /\ IdleValidation
    /\ IdleDataset

(***************************************************************************)
(* Calls on the artifact store, each run to completion                     *)
(***************************************************************************)
StoreArtifact(task, artifact) ==
    /\ disk' = [disk EXCEPT ![task] = StoreArtifactOn(disk[task], artifact, platform)]
    /\ written' = [written EXCEPT ![task] =
                      [v \in (DOMAIN written[task]) \cup {artifact.version} |->
                          IF v = artifact.version THEN artifact ELSE written[task][v]]]
    /\ last' = [Call("store_artifact", task, artifact.version, ReturnNone)
                  EXCEPT !.artifact = artifact,
                         !.existed = artifact.version \in DOMAIN written[task]]
    /\ UNCHANGED <<platform, activated, nonStoreVars>>

SetActiveVersion(task, version) ==
    LET r == SetActiveVersionOn(disk[task], version, platform)
    IN  /\ disk' = [disk EXCEPT ![task] = r.dir]
        /\ activated' = IF r.result.tag = "raise" THEN activated
                        ELSE [activated EXCEPT ![task] = version]
        /\ last' = [Call("set_active_version", task, version, r.result)
                      EXCEPT !.prev = activated[task]]
        /\ UNCHANGED <<platform, written, nonStoreVars>>

GetArtifact(task, version) ==
    /\ last' = Call("get_artifact", task, version, GetArtifactOn(disk[task], version))
    /\ UNCHANGED <<disk, platform, written, activated, nonStoreVars>>

GetActiveArtifact(task) ==
    /\ last' = Call("get_active_artifact", task, 0, GetActiveArtifactOn(disk[task]))
    /\ UNCHANGED <<disk, platform, written, activated, nonStoreVars>>

ListVersions(task) ==
    /\ last' = [Call("list_versions", task, 0, ReturnNone)
                  EXCEPT !.listing = ListVersionsOn(disk[task])]
    /\ UNCHANGED <<disk, platform, written, activated, nonStoreVars>>

Next ==
    \/ \E task \in Tasks, artifact \in SampleArtifacts : StoreArtifact(task, artifact)
    \/ \E task \in Tasks, version \in RequestVersions : SetActiveVersion(task, version)
    \/ \E task \in Tasks, version \in RequestVersions : GetArtifact(task, version)
    \/ \E task \in Tasks : GetActiveArtifact(task)
    \/ \E task \in Tasks : ListVersions(task)

Spec == Init /\ [][Next]_vars

(***************************************************************************)
(* set_active_version and get_active_artifact interleaved: one caller       *)
(* switches the pointer of RaceTask while another reads it, each file       *)
(* system call a step of its own.                                           *)
(***************************************************************************)
RaceTask == "task-a"

\* artifacts/ after every sample artifact of versions 1..MaxVersion was
\* stored for RaceTask and version 1 was made active
RECURSIVE StoredUpTo(_, _)
StoredUpTo(v, plat) ==
    IF v = 0 THEN NoDir
    ELSE StoreArtifactOn(StoredUpTo(v - 1, plat),
            CHOOSE a \in SampleArtifacts :
                a.version = v /\ (v = 1 => a.code = OldCode),
            plat)

RaceInit ==
    /\ platform \in Platforms
    /\ disk = [t \in Tasks |->
                IF t = RaceTask
                THEN SetActiveVersionOn(StoredUpTo(MaxVersion, platform), 1, platform).dir
                ELSE NoDir]
    /\ written = [t \in Tasks |->
                    IF t = RaceTask
                    THEN [v \in 1..MaxVersion |->
                            CHOOSE a \in SampleArtifacts :
                                a.version = v /\ (v = 1 => a.code = OldCode)]
                    ELSE EmptyDir]
    /\ activated = [t \in Tasks |-> IF t = RaceTask THEN 1 ELSE 0]
    /\ last = NoCall
    /\ writer = IdleWriter
    /\ reader = IdleReader
    /\ compiledCache = EmptyCache
    /\ executed = NoExecution
    /\ compiles = NoCompiles
    /\ IdleSampling
    /\ IdleValidation
    /\ IdleDataset

\* set_active_version(RaceTask, version) is called
WriterCall(version) ==
    /\ writer.pc = "idle"
    /\ writer' = [pc |-> "check", version |-> version]
    /\ UNCHANGED <<storeVars, reader, beyondStoreVars>>

\* if not version_dir.exists(): raise FileNotFoundError
WriterCheck ==
    /\ writer.pc = "check"
    /\ IF PathExists(disk[RaceTask], VersionDirName(writer.version))
       THEN /\ writer' = [writer EXCEPT !.pc = "stat"]
            /\ reader' = IF reader.pc = "idle" THEN reader
                         ELSE [reader EXCEPT !.allowed = @ \cup {writer.version}]
            /\ UNCHANGED last
       ELSE /\ writer' = IdleWriter
            /\ last' = Call("set_active_version", RaceTask, writer.version,
                            Raise("FileNotFoundError"))
            /\ UNCHANGED reader
    /\ UNCHANGED <<disk, platform, written, activated, beyondStoreVars>>

\* if active_link.exists() or active_link.is_symlink()
WriterStat ==
    /\ writer.pc = "stat"
    /\ writer' = [writer EXCEPT !.pc =
                    IF PathExists(disk[RaceTask], ActiveName)
                        \/ IsSymlink(disk[RaceTask], ActiveName)
                    THEN "unlink" ELSE "symlink"]
    /\ UNCHANGED <<storeVars, reader, beyondStoreVars>>

\* active_link.unlink()
WriterUnlink ==
    /\ writer.pc = "unlink"
    /\ disk' = [disk EXCEPT ![RaceTask] = WithoutEntry(@, ActiveName)]
    /\ writer' = [writer EXCEPT !.pc = "symlink"]
    /\ UNCHANGED <<platform, written, activated, last, reader, beyondStoreVars>>

\* os.symlink(version_dir, active_link): the call returns, or OSError
WriterSymlink ==
    /\ writer.pc = "symlink"
    /\ IF SymlinkAllowed(platform)
       THEN /\ disk' = [disk EXCEPT ![RaceTask] =
                          WithEntry(@, ActiveName,
                                    SymlinkEntry(VersionDirName(writer.version)))]
            /\ activated' = [activated EXCEPT ![RaceTask] = writer.version]
            /\ last' = [Call("set_active_version", RaceTask, writer.version, ReturnNone)
                          EXCEPT !.prev = activated[RaceTask]]
            /\ writer' = IdleWriter
       ELSE /\ writer' = [writer EXCEPT !.pc = "truncate"]
            /\ UNCHANGED <<disk, activated, last>>
    /\ UNCHANGED <<platform, written, reader, beyondStoreVars>>

\* open(marker_file, "w"): the file is created or emptied
WriterTruncate ==
    /\ writer.pc = "truncate"
    /\ disk' = [disk EXCEPT ![RaceTask] = WithEntry(@, MarkerName, FileEntry(<<>>))]
    /\ writer' = [writer EXCEPT !.pc = "write"]
    /\ UNCHANGED <<platform, written, activated, last, reader, beyondStoreVars>>

\* f.write(str(version)) and close: the call returns
WriterWrite ==
    /\ writer.pc = "write"
    /\ disk' = [disk EXCEPT ![RaceTask] =
                  WithEntry(@, MarkerName, FileEntry(Str(writer.version)))]
    /\ activated' = [activated EXCEPT ![RaceTask] = writer.version]
    /\ last' = [Call("set_active_version", RaceTask, writer.version, ReturnNone)
                  EXCEPT !.prev = activated[RaceTask]]
    /\ writer' = IdleWriter
    /\ UNCHANGED <<platform, written, reader, beyondStoreVars>>

\* the reader's call ends with result r
ReaderEnds(r) == reader' = [reader EXCEPT !.pc = "done", !.result = r]

\* get_active_artifact(RaceTask) is called; allowed: the version active now
\* and the version a switch in progress is moving to
ReaderCall ==
    /\ reader.pc = "idle"
    /\ reader' = [pc |-> "taskdir", version |-> 0, result |-> ReturnNone,
                  allowed |-> {activated[RaceTask]} \cup
                      (IF writer.pc \in {"idle", "check"} THEN {} ELSE {writer.version})]
    /\ UNCHANGED <<storeVars, writer, beyondStoreVars>>

\* if not task_dir.exists(): return None
ReaderTaskDir ==
    /\ reader.pc = "taskdir"
    /\ IF disk[RaceTask].exists
       THEN reader' = [reader EXCEPT !.pc = "linkexists"]
       ELSE ReaderEnds(ReturnNone)
    /\ UNCHANGED <<storeVars, writer, beyondStoreVars>>

\* active_link.exists()
ReaderLinkExists ==
    /\ reader.pc = "linkexists"
    /\ reader' = [reader EXCEPT !.pc =
                    IF PathExists(disk[RaceTask], ActiveName)
                    THEN "issymlink" ELSE "markerexists"]
    /\ UNCHANGED <<storeVars, writer, beyondStoreVars>>

\* active_link.is_symlink()
ReaderIsSymlink ==
    /\ reader.pc = "issymlink"
    /\ reader' = [reader EXCEPT !.pc =
                    IF IsSymlink(disk[RaceTask], ActiveName)
                    THEN "resolve" ELSE "markerexists"]
    /\ UNCHANGED <<storeVars, writer, beyondStoreVars>>

\* active_link.resolve() and int(target.name[1:]): a path that is no longer
\* there resolves to itself, and int("ctive") raises ValueError
ReaderResolve ==
    /\ reader.pc = "resolve"
    /\ LET target == IF IsSymlink(disk[RaceTask], ActiveName)
                     THEN disk[RaceTask].entries[ActiveName].target
                     ELSE ActiveName
       IN  IF PyInt(Tail(target)).ok
           THEN reader' = [reader EXCEPT !.pc = "getartifact",
                                         !.version = PyInt(Tail(target)).val]
           ELSE ReaderEnds(Raise("ValueError"))
    /\ UNCHANGED <<storeVars, writer, beyondStoreVars>>

\* marker_file.exists()
ReaderMarkerExists ==
    /\ reader.pc = "markerexists"
    /\ IF PathExists(disk[RaceTask], MarkerName)
       THEN reader' = [reader EXCEPT !.pc = "readmarker"]
       ELSE ReaderEnds(ReturnNone)
    /\ UNCHANGED <<storeVars, writer, beyondStoreVars>>

\* int(f.read().strip()) of the marker file
ReaderReadMarker ==
    /\ reader.pc = "readmarker"
    /\ LET text == disk[RaceTask].entries[MarkerName].content
       IN  IF PyInt(text).ok
           THEN reader' = [reader EXCEPT !.pc = "getartifact",
                                         !.version = PyInt(text).val]
           ELSE ReaderEnds(Raise("ValueError"))
    /\ UNCHANGED <<storeVars, writer, beyondStoreVars>>

\* return self.get_artifact(task_id, version)
ReaderGetArtifact ==
    /\ reader.pc = "getartifact"
    /\ ReaderEnds(GetArtifactOn(disk[RaceTask], reader.version))
    /\ UNCHANGED <<storeVars, writer, beyondStoreVars>>

\* the result is handed to the caller
ReaderReturn ==
    /\ reader.pc = "done"
    /\ last' = Call("get_active_artifact", RaceTask, 0, reader.result)
    /\ reader' = IdleReader
    /\ UNCHANGED <<disk, platform, written, activated, writer, beyondStoreVars>>

RaceNext ==
    \/ \E version \in RequestVersions : WriterCall(version)
    \/ WriterCheck
    \/ WriterStat
    \/ WriterUnlink
    \/ WriterSymlink
    \/ WriterTruncate
    \/ WriterWrite
    \/ ReaderCall
    \/ ReaderTaskDir
    \/ ReaderLinkExists
    \/ ReaderIsSymlink
    \/ ReaderResolve
    \/ ReaderMarkerExists
    \/ ReaderReadMarker
    \/ ReaderGetArtifact
    \/ ReaderReturn

SpecRace == RaceInit /\ [][RaceNext]_vars

(***************************************************************************)
(* Calls on one ProgramExecutor                                            *)
(***************************************************************************)
ExecInit ==
    /\ disk = [t \in Tasks |-> NoDir]
    /\ platform = "posix"
    /\ written = [t \in Tasks |-> EmptyDir]
    /\ activated = [t \in Tasks |-> 0]
    /\ last = NoCall
    /\ writer = IdleWriter
    /\ reader = IdleReader
    /\ compiledCache = EmptyCache
    /\ executed = NoExecution
    /\ compiles = NoCompiles
    /\ IdleSampling
    /\ IdleValidation
    /\ IdleDataset

\* execute(program, input_data, task_id); a caller whose call does not end
\* makes no further call
Execute(program, input) ==
    /\ executed.outcome # "hangs"
    /\ program.id \in DOMAIN compiledCache \/ CompileCount(compiles, program.id) < MaxCompiles
    /\ LET r == ExecuteOn(compiledCache, program, ExecTask, input)
       IN  /\ compiledCache' = r.cache
           /\ executed' = [program |-> program, outcome |-> r.outcome,
                            record |-> r.record, exc |-> r.exc,
                            compiled |-> r.compiled]
           /\ compiles' = IF r.compiled THEN Counted(compiles, program.id) ELSE compiles
    /\ UNCHANGED nonExecVars

\* clear_cache()
ClearCache ==
    /\ executed.outcome # "hangs"
    /\ compiledCache' = EmptyCache
    /\ compiles' = NoCompiles
    /\ UNCHANGED <<executed, nonExecVars>>

ExecNext ==
    \/ \E program \in SamplePrograms, input \in SampleInputs : Execute(program, input)
    \/ ClearCache

SpecExec == ExecInit /\ [][ExecNext]_vars

\* artifacts that share ids: each id with each of three codes, as when a
\* stored version is overwritten by a copy that keeps the id
OverwritePrograms ==
    {Program(id, code) : id \in {1, 2}, code \in {SpamCode, AlwaysSpamCode, RaisesCode}}

OverwriteNext ==
    \/ \E program \in OverwritePrograms, input \in SampleInputs : Execute(program, input)
    \/ ClearCache

SpecOverwrite == ExecInit /\ [][OverwriteNext]_vars

(***************************************************************************)
(* Calls on RandomSampler objects of one process                           *)
(***************************************************************************)
\* the store and the executor untouched
IdleRuntime ==
    /\ disk = [t \in Tasks |-> NoDir]
    /\ platform = "posix"
    /\ written = [t \in Tasks |-> EmptyDir]
    /\ activated = [t \in Tasks |-> 0]
    /\ last = NoCall
    /\ writer = IdleWriter
    /\ reader = IdleReader
    /\ compiledCache = EmptyCache
    /\ executed = NoExecution
    /\ compiles = NoCompiles
    /\ IdleDataset

\* a batch of executions, the shared generator seeded by the interpreter
\* from the system's entropy
SampleInit ==
    /\ IdleRuntime
    /\ executions \in Batches
    /\ rngState \in RngStates
    /\ samplers = [i \in SamplerIds |-> NoSampler]
    /\ sampled = NoSampling
    /\ marking = NoMarking
    /\ IdleValidation

\* samplers[id] = RandomSampler(sampling_rate=rate, seed=seed)
NewSampler(id, rate, seed) ==
    /\ IF ~(0 <= rate /\ rate <= RateDen)
       THEN /\ sampled' = [op |-> "init", id |-> id, raised |-> "ValueError",
                           indices |-> <<>>]
            /\ UNCHANGED <<samplers, rngState>>
       ELSE /\ samplers' = [samplers EXCEPT ![id] = Sampler(rate, seed)]
            /\ rngState' = IF seed # NoSeed THEN SeedState(seed) ELSE rngState
            /\ sampled' = [op |-> "init", id |-> id, raised |-> "", indices |-> <<>>]
    /\ UNCHANGED <<executions, marking, validateVars, runtimeVars>>

\* samplers[id].select_for_validation(executions)
Select(id) ==
    /\ samplers[id].made
    /\ LET r == SelectForValidation(executions, samplers[id].rate, rngState)
       IN  /\ rngState' = r.state
           /\ sampled' = [op |-> "select", id |-> id, raised |-> "",
                          indices |-> r.indices]
    /\ UNCHANGED <<executions, samplers, marking, validateVars, runtimeVars>>

SampleNext ==
    \/ \E id \in SamplerIds, rate \in Rates \cup {InvalidRate}, seed \in Seeds :
            NewSampler(id, rate, seed)
    \/ \E id \in SamplerIds : Select(id)

SpecSample == SampleInit /\ [][SampleNext]_vars

(***************************************************************************)
(* mark_sampled on a batch                                                 *)
(***************************************************************************)
MarkInit ==
    /\ IdleRuntime
    /\ executions \in Batches
    /\ rngState = 0
    /\ samplers = [i \in SamplerIds |-> NoSampler]
    /\ sampled = NoSampling
    /\ marking = NoMarking
    /\ IdleValidation

\* the indices of S as select_for_validation returns them: ascending
AscendingList(S) ==
    CHOOSE seq \in [1..Cardinality(S) -> S] :
        \A k \in 1..(Cardinality(S) - 1) : seq[k] < seq[k + 1]

\* index lists a caller may pass for a batch of n: every selection of
\* valid indices, an index twice, the index -1 and the index n
IndexLists(n) ==
    {AscendingList(S) : S \in SUBSET (0..(n - 1))}
        \cup {<<i, i>> : i \in 0..(n - 1)}
        \cup {<<-1>>, <<n>>}

\* sampler.mark_sampled(executions, indices)
MarkSampled(indices) ==
    /\ LET r == MarkSampledOn(executions, indices)
       IN  /\ executions' = r.executions
           /\ marking' = [called |-> TRUE, indices |-> indices,
                          before |-> executions, raised |-> r.raised]
    /\ UNCHANGED <<rngState, samplers, sampled, validateVars, runtimeVars>>

MarkNext == \E indices \in IndexLists(Len(executions)) : MarkSampled(indices)

SpecMark == MarkInit /\ [][MarkNext]_vars

(***************************************************************************)
(* The sample-then-validate run of scripts/run_phase1_benchmark.py         *)
(***************************************************************************)
\* outputs of LLMOracle.query: stripped and lower-cased by the oracle
OracleOutputs == {SpamText, HamText}

\* the executions of a dataset with at least one test case
PipeInit ==
    /\ IdleRuntime
    /\ executions \in {b \in Batches : b # <<>>}
    /\ rngState \in RngStates
    /\ samplers = [i \in SamplerIds |-> NoSampler]
    /\ sampled = NoSampling
    /\ marking = NoMarking
    /\ IdleValidation

\* sampler = RandomSampler(sampling_rate=task_spec.sampling_rate);
\* sampled_indices = sampler.select_for_validation(executions)
PipeSelect(rate) ==
    /\ pipe.pc = "idle"
    /\ LET r == SelectForValidation(executions, rate, rngState)
       IN  /\ rngState' = r.state
           /\ pipe' = [pipe EXCEPT !.pc = "mark", !.rate = rate, !.indices = r.indices]
    /\ UNCHANGED <<executions, samplers, sampled, marking, compared, runtimeVars>>

\* sampler.mark_sampled(executions, sampled_indices)
PipeMark ==
    /\ pipe.pc = "mark"
    /\ executions' = MarkSampledOn(executions, pipe.indices).executions
    /\ pipe' = [pipe EXCEPT !.pc = "validate", !.pos = 0]
    /\ UNCHANGED <<rngState, samplers, sampled, marking, compared, runtimeVars>>

\* the execution the loop is at
PipeExecution == executions[pipe.indices[pipe.pos + 1] + 1]

\* one turn of the loop: oracle.query answers, comparison.compare, append
PipeValidate(output) ==
    /\ pipe.pc = "validate"
    /\ pipe.pos < Len(pipe.indices)
    /\ pipe' = [pipe EXCEPT
                  !.pos = @ + 1,
                  !.validations =
                      IF PipeExecution.status = "success"
                      THEN Append(@, Compare(PipeExecution, OracleResult(output),
                                             "exact").validation)
                      ELSE @]
    /\ UNCHANGED <<sampleVars, compared, runtimeVars>>

\* one turn of the loop: oracle.query raises (the API call fails); nothing
\* in the script catches it
PipeQueryFails ==
    /\ pipe.pc = "validate"
    /\ pipe.pos < Len(pipe.indices)
    /\ PipeExecution.status = "success"
    /\ pipe' = [pipe EXCEPT !.pc = "failed", !.raised = "APIError"]
    /\ UNCHANGED <<sampleVars, compared, runtimeVars>>

\* the loop is over
PipeDone ==
    /\ pipe.pc = "validate"
    /\ pipe.pos = Len(pipe.indices)
    /\ pipe' = [pipe EXCEPT !.pc = "done"]
    /\ UNCHANGED <<sampleVars, compared, runtimeVars>>

PipeNext ==
    \/ \E rate \in Rates : PipeSelect(rate)
    \/ PipeMark
    \/ \E output \in OracleOutputs : PipeValidate(output)
    \/ PipeQueryFails
    \/ PipeDone

\* the script runs on until it ends or fails
SpecPipeline == PipeInit /\ [][PipeNext]_vars /\ WF_vars(PipeNext)

(***************************************************************************)
(* Calls of ComparisonEngine.compare                                       *)
(***************************************************************************)
\* outputs as programs and oracles give them: case and whitespace variants
OutputTexts ==
    {SpamText, <<"S", "p", "a", "m">>, <<"S", "P", "A", "M">>,
     <<" ", "s", "p", "a", "m", LF>>, <<"s", " ", "p", "a", "m">>,
     HamText, <<"H", "a", "m", " ">>, <<>>}

\* executions handed to compare: successes with each output, and a failure
CompareExecutions ==
    {[BatchRecord(0, TRUE) EXCEPT !.output = SomeText(t)] : t \in OutputTexts}
        \cup {BatchRecord(0, FALSE), [BatchRecord(1, FALSE) EXCEPT !.program_id = 2]}

CompareInit ==
    /\ IdleRuntime
    /\ IdleSampling
    /\ IdleValidation

\* compare(execution, oracle_result, method)
CompareCall(execution, oracle_output, method) ==
    /\ compared' = [called |-> TRUE, execution |-> execution,
                    oracle_result |-> OracleResult(oracle_output), method |-> method,
                    result |-> Compare(execution, OracleResult(oracle_output), method)]
    /\ UNCHANGED <<pipe, sampleVars, runtimeVars>>

CompareNext ==
    \E execution \in CompareExecutions, oracle_output \in OutputTexts,
       method \in ComparisonMethod :
        CompareCall(execution, oracle_output, method)

SpecCompare == CompareInit /\ [][CompareNext]_vars

(***************************************************************************)
(* DatasetManager: logging, analytics and retention as the clock advances  *)
(***************************************************************************)
\* Entries of executions/ that log_execution did not write in this run: a
\* file whose name is no date, one whose date is outside the calendar, one
\* whose date is written without padding, and a directory named as the log
\* of 31 December 2023.
ForeignLogs ==
    (<<"n", "o", "t", "e", "s", ".", "j", "s", "o", "n", "l">> :> FileEntry(<<>>))
      @@ (<<"2", "0", "2", "4", "-", "0", "1", "-", "3", "2", ".", "j", "s", "o", "n", "l">> :> FileEntry(<<>>))
      @@ (<<"2", "0", "2", "4", "-", "1", "-", "1", ".", "j", "s", "o", "n", "l">> :> FileEntry(<<>>))
      @@ (<<"2", "0", "2", "3", "-", "1", "2", "-", "3", "1", ".", "j", "s", "o", "n", "l">> :> DirEntry(EmptyDir))

InitialDatasets ==
    {NoDataset,
     [executions |-> Dir(ForeignLogs), validations |-> Dir(EmptyDir),
      analytics |-> Dir(EmptyDir)]}

RetentionDays == {1, 2}

\* the records handed to log_execution, up to their id
LogKinds ==
    {[status |-> "success", latency |-> 1, sampled |-> FALSE],
     [status |-> "success", latency |-> 4, sampled |-> TRUE],
     [status |-> "success", latency |-> NoLatency, sampled |-> FALSE],
     [status |-> "error", latency |-> 2, sampled |-> FALSE],
     [status |-> "timeout", latency |-> NoLatency, sampled |-> TRUE]}

\* the records logged on a day, in call order
LoggedOn(day) ==
    LET calls == SelectSeq(logged, LAMBDA c : c.day = day)
    IN  [i \in DOMAIN calls |-> calls[i].record]

DataInit(retentions) ==
    /\ disk = [t \in Tasks |-> NoDir]
    /\ platform = "posix"
    /\ written = [t \in Tasks |-> EmptyDir]
    /\ activated = [t \in Tasks |-> 0]
    /\ last = NoCall
    /\ writer = IdleWriter
    /\ reader = IdleReader
    /\ compiledCache = EmptyCache
    /\ executed = NoExecution
    /\ compiles = NoCompiles
    /\ IdleSampling
    /\ IdleValidation
    /\ dataset \in InitialDatasets
    /\ now = StartOfClock
    /\ retention \in retentions
    /\ logged = <<>>
    /\ dataCall = NoDataCall
    /\ appenders = [a \in Appenders |-> IdleAppender]
    /\ edges = [e \in EdgeIds |-> NoEdge]
    /\ served = NoServed
    /\ IdleCalls

dataRest ==
    <<storeVars, raceVars, execVars, sampleVars, validateVars, appenders, edgeVars,
      callVars>>

\* initialize_task(task_id)
InitializeTask ==
    /\ dataset' = InitializeTaskOn(dataset)
    /\ dataCall' = DataCall("initialize_task", <<>>, DataReturn(dataset, <<>>))
    /\ UNCHANGED <<now, retention, logged, dataRest>>

\* log_execution(task_id, execution)
LogExecution(kind) ==
    /\ Len(logged) < MaxLogged
    /\ LET record == LoggedRecord(Len(logged) + 1, kind.status, kind.latency, kind.sampled)
           r == LogExecutionOn(dataset, Date(now.day), record)
       IN  /\ dataset' = r.dataset
           /\ logged' = IF r.raised = "" THEN Append(logged, [day |-> now.day, record |-> record])
                        ELSE logged
           /\ dataCall' = [DataCall("log_execution", Strftime(Date(now.day)), r)
                             EXCEPT !.record = record]
    /\ UNCHANGED <<now, retention, dataRest>>

\* read_execution_logs(task_id, date)
ReadExecutionLogs(day) ==
    /\ LET r == ReadExecutionLogsOn(dataset, Strftime(Date(day)))
       IN  dataCall' = [DataCall("read_execution_logs", Strftime(Date(day)), r)
                          EXCEPT !.records = r.value]
    /\ UNCHANGED <<dataset, now, retention, logged, dataRest>>

\* generate_daily_analytics(task_id, date)
GenerateDailyAnalytics(day) ==
    /\ LET r == GenerateDailyAnalyticsOn(dataset, Strftime(Date(day)))
       IN  /\ dataset' = r.dataset
           /\ dataCall' = [DataCall("generate_daily_analytics", Strftime(Date(day)), r)
                             EXCEPT !.analytics = IF r.raised = "" THEN r.value
                                                  ELSE ZeroAnalytics(<<>>),
                                    \* history: the day's log at the call
                                    !.records =
                                        ReadExecutionLogsOn(dataset,
                                                            Strftime(Date(day))).value,
                                    \* history: a daily-stats file of the date was
                                    \* there and held other aggregates
                                    !.stale =
                                        /\ PathExists(dataset.analytics,
                                                      StatsFileName(Strftime(Date(day))))
                                        /\ r.raised = ""
                                        /\ StatsFile(dataset, Strftime(Date(day))).content
                                              # r.value]
    /\ UNCHANGED <<now, retention, logged, dataRest>>

\* apply_retention_policy(task_id)
ApplyRetentionPolicy ==
    /\ LET r == ApplyRetentionPolicyOn(dataset, now, retention)
       IN  /\ dataset' = r.dataset
           /\ dataCall' = [DataCall("apply_retention_policy", <<>>, r)
                             EXCEPT !.count = r.value]
    /\ UNCHANGED <<now, retention, logged, dataRest>>

\* datetime.now() moves on: to later the same day, or to a midnight
Tick(later) ==
    /\ now' = IF later THEN [now EXCEPT !.tod = 1]
              ELSE [day |-> now.day + 1, tod |-> Midnight]
    /\ now' # now
    /\ now'.day <= MaxDay
    /\ UNCHANGED <<dataset, retention, logged, dataCall, dataRest>>

\* the days whose logs are read and aggregated: the first day of the
\* clock and the day after
LogDays == {StartOfClock.day, StartOfClock.day + 1}

\* logging, reading and analytics over these days
LogNext ==
    \/ InitializeTask
    \/ \E kind \in LogKinds : now.day \in LogDays /\ LogExecution(kind)
    \/ \E day \in LogDays : ReadExecutionLogs(day)
    \/ \E day \in LogDays : GenerateDailyAnalytics(day)
    \/ now.day + 1 \in LogDays /\ Tick(FALSE)

SpecLog == DataInit({DefaultRetentionDays}) /\ [][LogNext]_vars

\* logging, analytics of any day so far, and retention as the days pass
RegenerateNext ==
    \/ InitializeTask
    \/ \E kind \in {k \in LogKinds : k.latency = 1 \/ k.status = "error"} :
          LogExecution(kind)
    \/ \E day \in 1..MaxDay : day <= now.day /\ GenerateDailyAnalytics(day)
    \/ ApplyRetentionPolicy
    \/ Tick(FALSE)

SpecRegenerate == DataInit({1}) /\ [][RegenerateNext]_vars

\* the records of a day whose percentiles are taken: successes of three
\* latencies and a failure
PercentileKinds ==
    {[status |-> "success", latency |-> 1, sampled |-> FALSE],
     [status |-> "success", latency |-> 4, sampled |-> FALSE],
     [status |-> "success", latency |-> 9, sampled |-> TRUE],
     [status |-> "error", latency |-> 2, sampled |-> FALSE]}

\* the dataset after log_execution of each of the kinds, in order
RECURSIVE LoggedAll(_, _, _)
LoggedAll(data, kinds, done) ==
    IF kinds = <<>> THEN data
    ELSE LET kind == Head(kinds)
             record == LoggedRecord(done + 1, kind.status, kind.latency, kind.sampled)
         IN  LoggedAll(LogExecutionOn(data, Date(StartOfClock.day), record).dataset,
                       Tail(kinds), done + 1)

\* a day on which between one and MaxLatencies executions were logged
PercentileInit ==
    /\ disk = [t \in Tasks |-> NoDir]
    /\ platform = "posix"
    /\ written = [t \in Tasks |-> EmptyDir]
    /\ activated = [t \in Tasks |-> 0]
    /\ last = NoCall
    /\ writer = IdleWriter
    /\ reader = IdleReader
    /\ compiledCache = EmptyCache
    /\ executed = NoExecution
    /\ compiles = NoCompiles
    /\ IdleSampling
    /\ IdleValidation
    /\ now = StartOfClock
    /\ retention = DefaultRetentionDays
    /\ dataCall = NoDataCall
    /\ appenders = [a \in Appenders |-> IdleAppender]
    /\ edges = [e \in EdgeIds |-> NoEdge]
    /\ served = NoServed
    /\ IdleCalls
    /\ \E n \in 1..MaxLatencies : \E kinds \in [1..n -> PercentileKinds] :
          /\ dataset = LoggedAll(InitializeTaskOn(NoDataset), kinds, 0)
          /\ logged = [i \in 1..n |->
                         [day |-> StartOfClock.day,
                          record |-> LoggedRecord(i, kinds[i].status, kinds[i].latency,
                                                  kinds[i].sampled)]]

PercentileNext == GenerateDailyAnalytics(StartOfClock.day)

SpecPercentile == PercentileInit /\ [][PercentileNext]_vars

\* logging and retention as the clock advances
RetentionNext ==
    \/ InitializeTask
    \/ \E kind \in {k \in LogKinds : k.status = "error"} : LogExecution(kind)
    \/ ApplyRetentionPolicy
    \/ \E later \in BOOLEAN : Tick(later)

SpecRetention == DataInit(RetentionDays) /\ [][RetentionNext]_vars

(***************************************************************************)
(* EdgeRuntime objects over one data directory                             *)
(***************************************************************************)
\* the programs an active artifact may hold: one that succeeds, one whose
\* classify raises, one that leaves through SystemExit, one that never returns
EdgeCodes == {SpamCode, RaisesCode, ExitCode, LoopCode}

EdgeArtifact(code) == [id |-> 1, version |-> 1, code |-> code, status |-> "validated"]

\* the latencies execute may measure
Latencies == {0, 2}

EdgeInputs == {[k \in {"text"} |-> "Buy now!"]}

\* artifacts/<task> before the runtime starts: nothing stored, an artifact
\* stored but none activated, or an artifact stored and activated
EdgeInit ==
    /\ platform \in Platforms
    /\ \E code \in EdgeCodes, stage \in {"empty", "stored", "active"} :
          LET stored == StoreArtifactOn(NoDir, EdgeArtifact(code), platform)
              active == SetActiveVersionOn(stored, 1, platform)
          IN  /\ stage = "empty" => code = SpamCode
              /\ disk = [t \in Tasks |->
                          IF t # ExecTask \/ stage = "empty" THEN NoDir
                          ELSE IF stage = "stored" THEN stored
                          ELSE active.dir]
              /\ written = [t \in Tasks |->
                              IF t # ExecTask \/ stage = "empty" THEN EmptyDir
                              ELSE (1 :> EdgeArtifact(code))]
              /\ activated = [t \in Tasks |->
                                IF t = ExecTask /\ stage = "active"
                                   /\ active.result.tag # "raise"
                                THEN 1 ELSE 0]
    /\ last = NoCall
    /\ writer = IdleWriter
    /\ reader = IdleReader
    /\ compiledCache = EmptyCache
    /\ executed = NoExecution
    /\ compiles = NoCompiles
    /\ IdleSampling
    /\ IdleValidation
    /\ dataset = NoDataset
    /\ now = StartOfClock
    /\ retention = DefaultRetentionDays
    /\ logged = <<>>
    /\ dataCall = NoDataCall
    /\ appenders = [a \in Appenders |-> IdleAppender]
    /\ edges = [e \in EdgeIds |-> NoEdge]
    /\ served = NoServed
    /\ IdleCalls

edgeRest == <<storeVars, raceVars, execVars, sampleVars, validateVars, appenders, callVars>>

Served(op, e) == [NoServed EXCEPT !.op = op, !.edge = e, !.calls = served.calls]

\* EdgeRuntime(data_dir, task_id)
EdgeConstruct(e) ==
    /\ ~edges[e].made
    /\ LET r == EdgeConstructOn(disk[ExecTask], dataset, ExecTask)
       IN  /\ dataset' = r.dataset
           /\ edges' = [edges EXCEPT ![e] = r.edge]
           /\ served' = [Served("construct", e) EXCEPT
                           !.outcome = IF r.raised = "" THEN "returned" ELSE "raised",
                           !.raised = r.raised]
    /\ UNCHANGED <<now, retention, logged, dataCall, edgeRest>>

\* runtime.execute(input_data); a call that does not end is not followed
\* by another call on the same runtime
EdgeExecute(e, input, latency) ==
    /\ edges[e].made
    /\ Len(served.calls) < MaxLogged
    /\ ~(served.outcome = "hangs" /\ served.edge = e)
    /\ LET r == EdgeExecuteOn(edges[e], dataset, Date(now.day), input, latency,
                              Len(served.calls) + 1)
       IN  /\ dataset' = r.dataset
           /\ edges' = [edges EXCEPT ![e] = r.edge]
           /\ logged' = IF r.record # NoLogged
                        THEN Append(logged, [day |-> now.day, record |-> r.record])
                        ELSE logged
           /\ served' = [Served("execute", e) EXCEPT
                           !.outcome = r.outcome,
                           !.raised = r.raised,
                           !.record = r.record,
                           !.calls = IF r.outcome = "hangs" THEN served.calls
                                     ELSE Append(served.calls, now.day)]
    /\ UNCHANGED <<now, retention, dataCall, edgeRest>>

\* runtime.get_metrics()
EdgeGetMetrics(e) ==
    /\ edges[e].made
    /\ LET r == GetMetricsOn(dataset, Date(now.day))
       IN  served' = [Served("get_metrics", e) EXCEPT
                         !.outcome = IF r.raised = "" THEN "returned" ELSE "raised",
                         !.raised = r.raised,
                         !.executions_today = r.executions_today,
                         !.avg_latency_ms = r.avg_latency_ms]
    /\ UNCHANGED <<dataset, now, retention, logged, dataCall, edges, edgeRest>>

\* midnight passes between two calls
EdgeTick ==
    /\ now.day + 1 \in LogDays
    /\ now' = [day |-> now.day + 1, tod |-> Midnight]
    /\ UNCHANGED <<dataset, retention, logged, dataCall, edges, served, edgeRest>>

EdgeNext ==
    \/ \E e \in EdgeIds : EdgeConstruct(e)
    \/ \E e \in EdgeIds, input \in EdgeInputs, latency \in Latencies :
          EdgeExecute(e, input, latency)
    \/ \E e \in EdgeIds : EdgeGetMetrics(e)
    \/ EdgeTick

SpecEdge == EdgeInit /\ [][EdgeNext]_vars

\* artifacts stored while runtimes are up: version 1 again with the same
\* and with other code, and a version 2
ReloadArtifacts ==
    {EdgeArtifact(SpamCode), EdgeArtifact(AlwaysSpamCode),
     [id |-> 2, version |-> 2, code |-> AlwaysSpamCode, status |-> "validated"]}

\* an input on which the two programs differ
ReloadInputs == {[k \in {"text"} |-> "Hello"]}

\* version 1 with the spam filter is stored and active
ReloadInit ==
    /\ EdgeInit
    /\ activated[ExecTask] = 1
    /\ written[ExecTask][1] = EdgeArtifact(SpamCode)

\* GET /health of a runtime
EdgeHealth(e) ==
    /\ edges[e].made
    /\ served' = [Served("health", e) EXCEPT
                    !.outcome = "returned",
                    !.active_version = HealthOn(edges[e], disk[ExecTask]).active_version]
    /\ UNCHANGED <<dataset, now, retention, logged, dataCall, edges, edgeRest>>

\* store_artifact and set_active_version calls around the construction and
\* the calls of two runtimes
ReloadNext ==
    \/ \E artifact \in ReloadArtifacts : StoreArtifact(ExecTask, artifact)
    \/ \E version \in 1..2 : SetActiveVersion(ExecTask, version)
    \/ \E e \in EdgeIds : EdgeConstruct(e)
    \/ \E e \in EdgeIds, input \in ReloadInputs : EdgeExecute(e, input, 2)
    \/ \E e \in EdgeIds : EdgeHealth(e)

SpecReload == ReloadInit /\ [][ReloadNext]_vars

(***************************************************************************)
(* LoopaiClient._request (sdk/python/loopai/client.py)                     *)
(***************************************************************************)
\* what one self._client.request(...) meets: a transport failure
\* (httpx.RequestError, httpx.TimeoutException) or a response with a status
\* and a body that is a JSON object, empty, or text that is not JSON
Statuses == {200, 201, 400, 404, 500, 503}

Bodies == {"json", "empty", "text"}

Replies ==
    {[kind |-> k, status |-> 0, body |-> ""] : k \in {"RequestError", "TimeoutException"}}
        \cup {[kind |-> "response", status |-> st, body |-> b] :
                  st \in Statuses, b \in Bodies}

\* response.json(): json.loads of the body
JsonOk(body) == body = "json"

\* 2 ** attempt
RECURSIVE Pow2(_)
Pow2(n) == IF n = 0 THEN 1 ELSE 2 * Pow2(n - 1)

\* delay = 0.5 * (2 ** attempt), in half seconds
Backoff(attempt) == Pow2(attempt)

\* a request loop that tries again after an error response of the server
AfterResponseRetries5xx(req, reply) ==
    IF reply.status >= 500 /\ req.attempt < req.max_retries
    THEN [req EXCEPT !.attempt = @ + 1]
    ELSE [req EXCEPT !.pc = "done",
                     !.outcome = IF reply.status < 400 THEN "returned" ELSE "raised",
                     !.raised = IF reply.status < 400 THEN ""
                                ELSE IF reply.status = 400 THEN "ValidationException"
                                ELSE IF reply.status = 500 THEN "ExecutionException"
                                ELSE "LoopaiException"]

\* the try block after a response arrived: response.json() of a status
\* below 400 is returned; otherwise the body is parsed when there is text
\* and the exception of the status is raised
AfterResponse(req, reply) ==
    IF reply.status < 400
    THEN IF JsonOk(reply.body)
         THEN [req EXCEPT !.pc = "done", !.outcome = "returned"]
         ELSE [req EXCEPT !.pc = "done", !.outcome = "raised",
                          !.raised = "JSONDecodeError"]
    ELSE IF reply.body # "empty" /\ ~JsonOk(reply.body)
         THEN [req EXCEPT !.pc = "done", !.outcome = "raised",
                          !.raised = "JSONDecodeError"]
    ELSE [req EXCEPT !.pc = "done", !.outcome = "raised",
                     !.raised = IF reply.status = 400 THEN "ValidationException"
                                ELSE IF reply.status = 500 THEN "ExecutionException"
                                ELSE "LoopaiException"]

\* except (httpx.RequestError, httpx.TimeoutException): sleep and continue,
\* or ConnectionException on the last attempt
AfterFailure(req) ==
    IF req.attempt < req.max_retries
    THEN [req EXCEPT !.attempt = @ + 1, !.slept = Append(@, Backoff(req.attempt))]
    ELSE [req EXCEPT !.pc = "done", !.outcome = "raised",
                     !.raised = "ConnectionException"]

requestRest ==
    <<storeVars, raceVars, execVars, sampleVars, validateVars, datasetVars,
      callers, storing, fetching>>

\* _request(method, path) on a client made with max_retries; with
\* range(max_retries + 1) empty the loop is skipped and the final raise runs
RequestCall(max_retries) ==
    /\ request.pc = "idle"
    /\ request' = IF max_retries + 1 <= 0
                  THEN [IdleRequest EXCEPT !.pc = "done", !.max_retries = max_retries,
                                           !.outcome = "raised",
                                           !.raised = "ConnectionException"]
                  ELSE [IdleRequest EXCEPT !.pc = "loop", !.max_retries = max_retries]
    /\ UNCHANGED requestRest

\* one pass of the loop body
RequestAttempt(reply) ==
    /\ request.pc = "loop"
    /\ LET met == [request EXCEPT !.replies = Append(@, reply)]
       IN  request' = IF reply.kind = "response" THEN AfterResponse(met, reply)
                      ELSE AfterFailure(met)
    /\ UNCHANGED requestRest

\* the caller has the data or the exception
RequestReturn ==
    /\ request.pc = "done"
    /\ request' = IdleRequest
    /\ UNCHANGED requestRest

RequestNext ==
    \/ \E max_retries \in (-1)..MaxRetries : RequestCall(max_retries)
    \/ \E reply \in Replies : RequestAttempt(reply)
    \/ RequestReturn

SpecRequest == ExecInit /\ [][RequestNext]_vars

(***************************************************************************)
(* store_artifact overwriting a version while get_artifact reads it       *)
(***************************************************************************)
\* the editions of version 1: the one stored at the start and the copies
\* that overwrite it (model_copy keeps the id)
StoredEditions ==
    {EdgeArtifact(SpamCode),
     [id |-> 1, version |-> 1, code |-> AlwaysSpamCode, status |-> "active"],
     [id |-> 1, version |-> 1, code |-> RaisesCode, status |-> "deprecated"]}

\* the text of a file just opened with "w"
Truncated == <<>>

fetchRest ==
    <<platform, activated, last, raceVars, execVars, sampleVars, validateVars,
      datasetVars, callers, request>>

\* store_artifact(task_id, artifact) is called
StoreCall(artifact) ==
    /\ storing.pc = "idle"
    /\ storing' = [pc |-> "mkdir", artifact |-> artifact]
    /\ UNCHANGED <<disk, written, fetching, fetchRest>>

\* version_dir.mkdir(parents=True, exist_ok=True)
StoreMkdirStep ==
    /\ storing.pc = "mkdir"
    /\ disk' = [disk EXCEPT ![ExecTask] = StoreMkdir(@, storing.artifact.version)]
    /\ storing' = [storing EXCEPT !.pc = "open-code"]
    /\ UNCHANGED <<written, fetching, fetchRest>>

\* open(program_file, "w"): the file is there and empty
StoreOpenCode ==
    /\ storing.pc = "open-code"
    /\ disk' = [disk EXCEPT ![ExecTask] =
                  WithFile(@, storing.artifact.version, "program.py", Truncated)]
    /\ storing' = [storing EXCEPT !.pc = "write-code"]
    /\ UNCHANGED <<written, fetching, fetchRest>>

\* f.write(artifact.code) and the close that flushes it
StoreWriteCode ==
    /\ storing.pc = "write-code"
    /\ disk' = [disk EXCEPT ![ExecTask] =
                  WithFile(@, storing.artifact.version, "program.py",
                           TextWrite(storing.artifact.code, platform))]
    /\ storing' = [storing EXCEPT !.pc = "open-metadata"]
    /\ UNCHANGED <<written, fetching, fetchRest>>

\* open(metadata_file, "w"): the file is there and empty
StoreOpenMetadata ==
    /\ storing.pc = "open-metadata"
    /\ disk' = [disk EXCEPT ![ExecTask] =
                  WithFile(@, storing.artifact.version, "metadata.json", Truncated)]
    /\ storing' = [storing EXCEPT !.pc = "write-metadata"]
    /\ UNCHANGED <<written, fetching, fetchRest>>

\* json.dump(metadata, f) and the close that flushes it; the call returns
StoreWriteMetadata ==
    /\ storing.pc = "write-metadata"
    /\ disk' = [disk EXCEPT ![ExecTask] =
                  WithFile(@, storing.artifact.version, "metadata.json",
                           ModelDump(storing.artifact))]
    /\ written' = [written EXCEPT ![ExecTask] =
                      [v \in (DOMAIN @) \cup {storing.artifact.version} |->
                          IF v = storing.artifact.version THEN storing.artifact ELSE @[v]]]
    /\ storing' = IdleStoring
    /\ UNCHANGED <<fetching, fetchRest>>

\* get_artifact(task_id, version) is called (get_active_artifact ends in
\* this call once it has resolved the version)
FetchCall(version) ==
    /\ fetching.pc = "idle"
    /\ fetching' = [IdleFetching EXCEPT !.pc = "exists", !.version = version]
    /\ UNCHANGED <<disk, written, storing, fetchRest>>

FetchEnd(result) == [fetching EXCEPT !.pc = "done", !.result = result]

\* if not version_dir.exists(): return None
FetchExists ==
    /\ fetching.pc = "exists"
    /\ fetching' = IF PathExists(disk[ExecTask], VersionDirName(fetching.version))
                   THEN [fetching EXCEPT !.pc = "metadata"]
                   ELSE FetchEnd(ReturnNone)
    /\ UNCHANGED <<disk, written, storing, fetchRest>>

\* json.load of metadata.json
FetchReadMetadata ==
    /\ fetching.pc = "metadata"
    /\ LET files == disk[ExecTask].entries[VersionDirName(fetching.version)].files
       IN  fetching' =
             IF "metadata.json" \notin DOMAIN files THEN FetchEnd(Raise("FileNotFoundError"))
             ELSE IF DOMAIN files["metadata.json"] = {}
                  THEN FetchEnd(Raise("JSONDecodeError"))
             ELSE [fetching EXCEPT !.pc = "code", !.metadata = files["metadata.json"]]
    /\ UNCHANGED <<disk, written, storing, fetchRest>>

\* f.read() of program.py, then ProgramArtifact(**metadata)
FetchReadCode ==
    /\ fetching.pc = "code"
    /\ LET files == disk[ExecTask].entries[VersionDirName(fetching.version)].files
           code == TextRead(files["program.py"])
           artifact == FromMetadata(fetching.metadata, code)
       IN  fetching' =
             IF "program.py" \notin DOMAIN files THEN FetchEnd(Raise("FileNotFoundError"))
             ELSE [FetchEnd(IF ValidArtifact(artifact) THEN ReturnArtifact(artifact)
                            ELSE Raise("ValidationError"))
                     EXCEPT !.code = code]
    /\ UNCHANGED <<disk, written, storing, fetchRest>>

\* the caller has its result
FetchReturn ==
    /\ fetching.pc = "done"
    /\ fetching' = IdleFetching
    /\ UNCHANGED <<disk, written, storing, fetchRest>>

FetchNext ==
    \/ \E artifact \in StoredEditions : StoreCall(artifact)
    \/ StoreMkdirStep
    \/ StoreOpenCode
    \/ StoreWriteCode
    \/ StoreOpenMetadata
    \/ StoreWriteMetadata
    \/ \E version \in 1..2 : FetchCall(version)
    \/ FetchExists
    \/ FetchReadMetadata
    \/ FetchReadCode
    \/ FetchReturn

SpecFetch == ReloadInit /\ [][FetchNext]_vars

(***************************************************************************)
(* log_execution called concurrently: each caller opens today's file in    *)
(* append mode and writes its line when the file object is closed.  On     *)
(* POSIX the write of a file opened with O_APPEND goes to the end of the   *)
(* file in one step; the C runtime on Windows moves the file position to   *)
(* the end and then writes, two steps that other writers can come between. *)
(***************************************************************************)
AppendInit ==
    /\ IdleSampling
    /\ IdleValidation
    /\ disk = [t \in Tasks |-> NoDir]
    /\ platform \in Platforms
    /\ written = [t \in Tasks |-> EmptyDir]
    /\ activated = [t \in Tasks |-> 0]
    /\ last = NoCall
    /\ writer = IdleWriter
    /\ reader = IdleReader
    /\ compiledCache = EmptyCache
    /\ executed = NoExecution
    /\ compiles = NoCompiles
    /\ dataset \in {NoDataset, InitializeTaskOn(NoDataset)}
    /\ now = StartOfClock
    /\ retention = DefaultRetentionDays
    /\ logged = <<>>
    /\ dataCall = NoDataCall
    /\ appenders = [a \in Appenders |-> IdleAppender]
    /\ edges = [e \in EdgeIds |-> NoEdge]
    /\ served = NoServed
    /\ IdleCalls

appendRest ==
    <<storeVars, raceVars, execVars, sampleVars, validateVars, now, retention, logged,
      dataCall, edgeVars, callVars>>

TodaysLog == LogFileName(Strftime(Date(now.day)))

\* text with data written at offset: over what is there, beyond the end
WrittenAt(text, offset, data) ==
    SubSeq(text, 1, offset) \o data
        \o SubSeq(text, offset + Len(data) + 1, Len(text))

\* log_file.parent.mkdir(...); open(log_file, "a"): the file exists afterwards
AppendOpen(a, kind) ==
    /\ appenders[a].pc = "idle"
    /\ dataset' = [dataset EXCEPT !.executions =
                      WithEntry(dataset.executions, TodaysLog,
                                LogFile(dataset.executions, Strftime(Date(now.day))))]
    /\ appenders' = [appenders EXCEPT ![a] =
                        [pc |-> "opened",
                         record |-> LoggedRecord(a, kind.status, kind.latency, kind.sampled),
                         offset |-> 0]]
    /\ UNCHANGED appendRest

\* the runtime's write on Windows, first half: the position moves to the end
AppendSeek(a) ==
    /\ appenders[a].pc = "opened"
    /\ platform = "windows"
    /\ appenders' = [appenders EXCEPT ![a].pc = "sought",
                                      ![a].offset = Len(LogEntries(dataset)[TodaysLog].content)]
    /\ UNCHANGED <<dataset, appendRest>>

\* f.write(line) reaching the file as the with block closes it
AppendWrite(a) ==
    /\ \/ appenders[a].pc = "opened" /\ platform = "posix"
       \/ appenders[a].pc = "sought"
    /\ LET text == LogEntries(dataset)[TodaysLog].content
           offset == IF platform = "posix" THEN Len(text) ELSE appenders[a].offset
       IN  dataset' = [dataset EXCEPT !.executions =
                          WithEntry(dataset.executions, TodaysLog,
                                    FileEntry(WrittenAt(text, offset,
                                                        DumpsLine(appenders[a].record))))]
    /\ appenders' = [appenders EXCEPT ![a].pc = "done"]
    /\ UNCHANGED appendRest

AppendNext ==
    \/ \E a \in Appenders, kind \in LogKinds : AppendOpen(a, kind)
    \/ \E a \in Appenders : AppendSeek(a)
    \/ \E a \in Appenders : AppendWrite(a)

SpecAppend == AppendInit /\ [][AppendNext]_vars

(***************************************************************************)
(* Threads calling execute on one ProgramExecutor: the look-up in the      *)
(* cache, the compilation with its insertion, and the run of the cached    *)
(* code are steps that other threads can come between.                     *)
(***************************************************************************)
ThreadPrograms == {program \in SamplePrograms : program.code \in {SpamCode, RaisesCode, SyntaxErrorCode}}

ThreadInput == [k \in {"text"} |-> "Buy now!"]

threadRest ==
    <<storeVars, raceVars, sampleVars, validateVars, datasetVars, executed, storing,
      fetching, request>>

\* the end of a call as the caller sees it
ThreadResult(program, end, compiled) ==
    [program |-> program, outcome |-> end.outcome, record |-> end.record,
     exc |-> end.exc, compiled |-> compiled]

\* execute(program, input_data, task_id) entered
ThreadCall(c, program) ==
    /\ callers[c].pc = "idle"
    /\ callers' = [callers EXCEPT ![c] = [IdleCaller EXCEPT !.pc = "check",
                                                             !.program = program]]
    /\ UNCHANGED <<compiledCache, compiles, threadRest>>

\* if program.id not in self._compiled_cache
ThreadCheck(c) ==
    /\ callers[c].pc = "check"
    /\ callers' = [callers EXCEPT
                      ![c].miss = callers[c].program.id \notin DOMAIN compiledCache,
                      ![c].pc = IF callers[c].program.id \notin DOMAIN compiledCache
                                THEN "compile" ELSE "run"]
    /\ UNCHANGED <<compiledCache, compiles, threadRest>>

\* self._compile_program(program); a SyntaxError ends the call in the
\* except branch
ThreadCompile(c) ==
    /\ callers[c].pc = "compile"
    /\ CompileCount(compiles, callers[c].program.id) < MaxCompiles
    /\ LET program == callers[c].program
           compiled == CompileProgram(compiledCache, program)
       IN  /\ compiledCache' = compiled.cache
           /\ compiles' = Counted(compiles, program.id)
           /\ callers' = [callers EXCEPT
                             ![c].pc = IF compiled.end.kind = "return" THEN "run" ELSE "done",
                             ![c].result =
                                 IF compiled.end.kind = "return" THEN NoExecution
                                 ELSE ThreadResult(program,
                                          AfterTry(compiled.cache, program, ExecTask,
                                                   ThreadInput, compiled.end),
                                          TRUE)]
    /\ UNCHANGED threadRest

\* self._execute_safe(program, input_data) and the record built from it
ThreadRun(c) ==
    /\ callers[c].pc = "run"
    /\ LET program == callers[c].program
           end == IF program.id \in DOMAIN compiledCache
                  THEN ExecuteSafe(compiledCache, program, ThreadInput)
                  ELSE Raises("KeyError", "")
       IN  callers' = [callers EXCEPT
                          ![c].pc = "done",
                          ![c].result =
                              ThreadResult(program,
                                  AfterTry(compiledCache, program, ExecTask, ThreadInput, end),
                                  callers[c].miss)]
    /\ UNCHANGED <<compiledCache, compiles, threadRest>>

\* the caller has its record and may call again
ThreadReturn(c) ==
    /\ callers[c].pc = "done"
    /\ callers' = [callers EXCEPT ![c] = IdleCaller]
    /\ UNCHANGED <<compiledCache, compiles, threadRest>>

ThreadNext ==
    \/ \E c \in ExecCallers, program \in ThreadPrograms : ThreadCall(c, program)
    \/ \E c \in ExecCallers : ThreadCheck(c)
    \/ \E c \in ExecCallers : ThreadCompile(c)
    \/ \E c \in ExecCallers : ThreadRun(c)
    \/ \E c \in ExecCallers : ThreadReturn(c)

SpecThreads == ExecInit /\ [][ThreadNext]_vars

(***************************************************************************)
(* Properties of the artifact store                                        *)
(***************************************************************************)
Range(seq) == {seq[i] : i \in DOMAIN seq}

\* entries of a task directory other than the two pointer names
Stored(dir) ==
    [n \in (DOMAIN dir.entries) \ {ActiveName, MarkerName} |-> dir.entries[n]]

\* version directories that hold a metadata file
StoredDirs(dir) ==
    {n \in DOMAIN dir.entries :
        /\ dir.entries[n].kind = "dir"
        /\ "metadata.json" \in DOMAIN dir.entries[n].files}

MetadataVersion(dir, n) ==
    FromMetadata(dir.entries[n].files["metadata.json"], <<>>).version

\* C1: right after set_active_version(task, v) returned normally,
\* get_active_artifact(task) returns the stored artifact of version v, also
\* when another version was active before.
C1_SetActiveWins ==
    (last.op = "set_active_version" /\ last.result.tag = "none") =>
        LET r == GetActiveArtifactOn(disk[last.task])
        IN  /\ r.tag = "artifact"
            /\ r.artifact.version = last.version
            /\ r = GetArtifactOn(disk[last.task], last.version)

C1_Witness ==
    /\ last.op = "set_active_version"
    /\ last.result.tag = "none"
    /\ last.prev # 0
    /\ last.prev # last.version
    /\ GetActiveArtifactOn(disk[last.task]).artifact.version = last.version

\* C2: get_active_artifact resolves to none or to an artifact whose version
\* is listed by list_versions and was stored; the version numbers of the
\* stored version directories of a task are pairwise different and >= 1.
C2_ActiveResolvesToStored ==
    \A t \in Tasks :
        LET r == GetActiveArtifactOn(disk[t])
        IN  /\ \/ r.tag = "none"
               \/ /\ r.tag = "artifact"
                  /\ r.artifact.version \in Range(ListVersionsOn(disk[t]))
                  /\ r.artifact.version \in DOMAIN written[t]
            /\ \A n \in StoredDirs(disk[t]) :
                  /\ MetadataVersion(disk[t], n) >= 1
                  /\ \A m \in StoredDirs(disk[t]) :
                        MetadataVersion(disk[t], m) = MetadataVersion(disk[t], n) => m = n

C2_Witness ==
    \E t \in Tasks :
        /\ GetActiveArtifactOn(disk[t]).tag = "artifact"
        /\ Cardinality(StoredDirs(disk[t])) >= 2

\* C4: set_active_version(task, v) for a version never stored for the task
\* raises the not-found error and leaves what get_active_artifact(task)
\* returns as it was.
C4_SetActiveMissingFails ==
    [][(last'.op = "set_active_version" /\ last' # last
            /\ last'.version \notin DOMAIN written[last'.task]) =>
          /\ last'.result = Raise("FileNotFoundError")
          /\ GetActiveArtifactOn(disk'[last'.task]) = GetActiveArtifactOn(disk[last'.task])]_vars

C4_Witness ==
    /\ last.op = "set_active_version"
    /\ last.result = Raise("FileNotFoundError")
    /\ last.version \notin DOMAIN written[last.task]
    /\ GetActiveArtifactOn(disk[last.task]).tag = "artifact"

\* C5: while no set_active_version has returned normally for a task,
\* get_active_artifact returns None for it and raises nothing, whether or
\* not versions are stored.
C5_NoPointerIsNone ==
    \A t \in Tasks : activated[t] = 0 => GetActiveArtifactOn(disk[t]) = ReturnNone

C5_Witness ==
    /\ last.op = "get_active_artifact"
    /\ last.result = ReturnNone
    /\ activated[last.task] = 0
    /\ DOMAIN written[last.task] # {}

\* C6: store_artifact overwrites: after artifact B was stored over an
\* existing version, get_artifact returns exactly B (code and metadata),
\* list_versions holds the version once, and storing B again changes nothing.
C6_StoreOverwrites ==
    (last.op = "store_artifact" /\ last.existed) =>
        /\ GetArtifactOn(disk[last.task], last.version) = ReturnArtifact(last.artifact)
        /\ Cardinality({i \in DOMAIN ListVersionsOn(disk[last.task]) :
                            ListVersionsOn(disk[last.task])[i] = last.version}) = 1
        /\ StoreArtifactOn(disk[last.task], last.artifact, platform) = disk[last.task]

\* C7: get_artifact(t, v) returns the artifact last stored as version v of
\* task t, with identical code text and equal metadata fields, whatever
\* other versions were stored before or after.
C7_StoreGetRoundTrip ==
    \A t \in Tasks : \A v \in DOMAIN written[t] :
        GetArtifactOn(disk[t], v) = ReturnArtifact(written[t][v])

RECURSIVE Ascending(_)
Ascending(S) ==
    IF S = {} THEN <<>>
    ELSE LET m == CHOOSE x \in S : \A y \in S : x <= y
         IN  <<m>> \o Ascending(S \ {m})

\* C9: list_versions returns exactly the stored version numbers of the task,
\* ascending and without duplicates; entries whose names are not of the form
\* v<version> are skipped; a task without artifacts gives the empty list.
C9_ListVersionsExact ==
    \A t \in Tasks : ListVersionsOn(disk[t]) = Ascending(DOMAIN written[t])

\* C3: with symbolic links available, a get_active_artifact that runs while
\* set_active_version switches the task from version a to version b returns
\* the artifact of version a or of version b: never None, never an error,
\* never another version.
C3_ReaderSeesOldOrNew ==
    (platform = "posix" /\ reader.pc = "done") =>
        /\ reader.result.tag = "artifact"
        /\ reader.result.artifact.version \in reader.allowed

\* C10: execute never raises: whatever the program (source that does not
\* compile, a body that raises, no entry point, a capability outside the
\* allow-list) and the input, a call that ends returns an ExecutionRecord,
\* and a record that is not a success carries an error message.
C10_ExecuteNeverRaises ==
    /\ executed.outcome # "raised"
    /\ (executed.outcome = "returned" /\ executed.record.status # "success") =>
            /\ executed.record.status \in {"error", "timeout"}
            /\ executed.record.error_message.some

(***************************************************************************)
(* Properties of the executor's records                                    *)
(***************************************************************************)
\* C11: every record execute returns with a status other than success
\* (error or timeout) has no output, and every record with status success
\* has an output.
C11_OutputIffSuccess ==
    executed.outcome = "returned" =>
        (executed.record.status = "success" <=> executed.record.output.some)

C11_Witness ==
    /\ executed.outcome = "returned"
    /\ executed.record.status = "error"
    /\ ~executed.record.output.some

\* C12: execute is bounded by the configured timeout: for every program,
\* also one whose entry point never returns, the call ends, so the caller
\* is never left waiting without end.
C12_ExecuteEnds == executed.outcome # "hangs"

\* the programs that reach outside the allow-lists: import os, open(...)
OutsideAllowList == {ImportOsCode, OpenCode}

\* C13: a program that imports a module outside the allow-list or uses a
\* builtin outside the allow-list does not raise into the caller: execute
\* returns a record with status error, an error message and no output, and
\* the next execution on the same executor runs as on a fresh one.
C13_CapabilityErrorContained ==
    /\ [](executed.program.code \in OutsideAllowList =>
            /\ executed.outcome = "returned"
            /\ executed.record.status = "error"
            /\ executed.record.error_message.some
            /\ ~executed.record.output.some)
    /\ [][(executed.program.code \in OutsideAllowList /\ executed' # executed) =>
            LET fresh == ExecuteOn(EmptyCache, executed'.program, ExecTask,
                                   executed'.record.input)
            IN  /\ executed'.outcome = fresh.outcome
                /\ executed'.outcome = "returned" => executed'.record = fresh.record]_vars

C13_Witness ==
    /\ executed.program.code = ImportOsCode
    /\ executed.outcome = "returned"
    /\ executed.record.status = "error"
    /\ 6 \in DOMAIN compiledCache

(***************************************************************************)
(* Properties of the sampler                                               *)
(***************************************************************************)
\* C14: select_for_validation returns exactly max(1, floor(N * r)) indices,
\* N being the number of successful executions of the batch (failed and
\* timed-out executions do not count) and r the sampling rate.
C14_CountFromSuccessful ==
    (sampled.op = "select" /\ SuccessfulIndices(executions) # <<>>) =>
        Len(sampled.indices) =
            Max(1, (Len(SuccessfulIndices(executions)) * samplers[sampled.id].rate)
                        \div RateDen)

\* C15: every index select_for_validation returns is a valid index of an
\* execution with status success, the indices are pairwise distinct and
\* ascending, and the result is empty exactly when the batch has no
\* successful execution.
C15_SelectedAreSuccessful ==
    sampled.op = "select" =>
        /\ \A k \in DOMAIN sampled.indices :
              /\ 0 <= sampled.indices[k] /\ sampled.indices[k] < Len(executions)
              /\ executions[sampled.indices[k] + 1].status = "success"
        /\ \A k \in DOMAIN sampled.indices :
              k > 1 => sampled.indices[k - 1] < sampled.indices[k]
        /\ (sampled.indices = <<>>) <=>
              (\A p \in DOMAIN executions : executions[p].status # "success")

C15_Witness ==
    /\ sampled.op = "select"
    /\ Len(sampled.indices) >= 2
    /\ \E p \in DOMAIN executions : executions[p].status = "timeout"

\* C16: sampling is deterministic under a seed: a select_for_validation of
\* a sampler constructed with a seed returns, on the same batch, the
\* indices the first call of a sampler with that seed returns, also as the
\* second call on that sampler and with other samplers constructed or used
\* in between.
C16_SeedDeterminesSelection ==
    (sampled.op = "select" /\ samplers[sampled.id].seed # NoSeed) =>
        sampled.indices =
            SelectForValidation(executions, samplers[sampled.id].rate,
                                SeedState(samplers[sampled.id].seed)).indices

\* the positions of the batch an index list names
MarkedPositions(n, indices) == {PyIndex(n, indices[k]) : k \in DOMAIN indices}

\* C17: mark_sampled sets sampled_for_validation on exactly the executions
\* at the given indices and changes no other execution and no other field;
\* a second call with the same indices leaves every record as it was
\* after the first.
C17_MarkSampledExactOnce ==
    /\ []((marking.called /\ marking.raised = "") =>
            /\ DOMAIN executions = DOMAIN marking.before
            /\ \A p \in DOMAIN executions :
                 executions[p] =
                    IF p \in MarkedPositions(Len(executions), marking.indices)
                    THEN [marking.before[p] EXCEPT !.sampled_for_validation = TRUE]
                    ELSE marking.before[p])
    /\ [][(marking.called /\ marking.raised = ""
            /\ marking'.indices = marking.indices) => executions' = executions]_vars

C17_Witness ==
    /\ marking.called
    /\ marking.raised = ""
    /\ marking.indices # <<>>
    /\ marking.before = executions
    /\ \E p \in DOMAIN executions : ~executions[p].sampled_for_validation
    /\ \E p \in DOMAIN executions : executions[p].sampled_for_validation

(***************************************************************************)
(* Properties of the validation                                            *)
(***************************************************************************)
\* C18: in the sample-then-validate run, every execution whose
\* sampled_for_validation flag has been set is eventually followed by a
\* ValidationRecord whose execution_id references it, also when an oracle
\* query fails part-way through the batch.
C18_SampledEventuallyValidated ==
    \A p \in 1..MaxBatch :
        (p \in DOMAIN executions /\ executions[p].sampled_for_validation)
            ~> (/\ p \in DOMAIN executions
                /\ \E k \in DOMAIN pipe.validations :
                        pipe.validations[k].execution_id = executions[p].id)

\* C19: under the exact method compare reports match with similarity 1.0
\* whenever program output and oracle output are equal after lower-casing
\* and trimming surrounding whitespace, no match with similarity 0.0
\* otherwise, and the same verdict with the two outputs swapped.
C19_ExactMatchNormalized ==
    (compared.called /\ compared.method = "exact") =>
        LET program_output == ExtractOutput(compared.execution.output)
            oracle_output == compared.oracle_result.output
            same == Strip(PyLower(program_output)) = Strip(PyLower(oracle_output))
            swapped == Compare([compared.execution EXCEPT
                                    !.output = SomeText(oracle_output)],
                               OracleResult(program_output), "exact")
        IN  /\ compared.result.raised = ""
            /\ compared.result.validation.match = same
            /\ compared.result.validation.similarity_score = (IF same THEN 1 ELSE 0)
            /\ swapped.validation.match = compared.result.validation.match
            /\ swapped.validation.similarity_score
                    = compared.result.validation.similarity_score

C19_Witness ==
    /\ compared.called
    /\ compared.method = "exact"
    /\ compared.execution.output.some
    /\ compared.execution.output.val # compared.oracle_result.output
    /\ PyLower(compared.execution.output.val) # PyLower(compared.oracle_result.output)
    /\ compared.result.validation.match

\* C20: compare called with a method other than exact (semantic, fuzzy or
\* structured) fails with a not-implemented error and produces no
\* ValidationRecord.
C20_OtherMethodsNotImplemented ==
    (compared.called /\ compared.method # "exact") =>
        /\ compared.result.raised = "NotImplementedError"
        /\ compared.result.validation = NoValidation

(***************************************************************************)
(* Properties of the dataset manager                                       *)
(***************************************************************************)
\* some call of the dataset manager completes in this step
DataCalled(op) == dataCall' # dataCall /\ dataCall'.op = op

\* C21: the execution log is append-only.  Each log_execution call adds its
\* one record at the end of the current day's file: what read_execution_logs
\* returned for the day before the call is a prefix of what it returns
\* after, the new record follows it, and no other entry of executions/ is
\* touched; at any time the file of a day reads as the records logged on
\* that day, in call order.
C21_LogAppendOnly ==
    /\ [](\A day \in LogDays :
            PathExists(dataset.executions, LogFileName(Strftime(Date(day)))) =>
                LET read == ReadExecutionLogsOn(dataset, Strftime(Date(day)))
                IN  read.raised = "" /\ read.value = LoggedOn(day))
    /\ [][DataCalled("log_execution") =>
            LET today == dataCall'.date
                before == ReadExecutionLogsOn(dataset, today)
                after == ReadExecutionLogsOn(dataset', today)
            IN  /\ after.raised = ""
                /\ after.value = before.value \o <<dataCall'.record>>
                /\ DOMAIN LogEntries(dataset') =
                      (DOMAIN LogEntries(dataset)) \cup {LogFileName(today)}
                /\ \A name \in (DOMAIN LogEntries(dataset)) \ {LogFileName(today)} :
                      LogEntries(dataset')[name] = LogEntries(dataset)[name]]_vars

\* a second record was appended to a day's file while an earlier day has a
\* file of its own
C21_Witness ==
    /\ dataCall.op = "log_execution"
    /\ dataCall.raised = ""
    /\ now.day = 2
    /\ Len(LoggedOn(2)) = 2
    /\ ReadExecutionLogsOn(dataset, Strftime(Date(2))).value = LoggedOn(2)
    /\ PathExists(dataset.analytics, StatsFileName(Strftime(Date(1))))

\* the aggregates whose every count, rate and latency figure is zero
AllZero(analytics) ==
    /\ analytics.total_executions = 0
    /\ analytics.successful_executions = 0
    /\ analytics.failed_executions = 0
    /\ analytics.sampled_count = 0
    /\ analytics.success_rate.num = 0
    /\ analytics.sampling_rate.num = 0
    /\ analytics.avg_latency_ms.num = 0
    /\ analytics.p50_latency_ms = 0
    /\ analytics.p99_latency_ms = 0

\* C22: generate_daily_analytics is a function of the day's raw log.  A call
\* does not raise and returns the aggregates of the records the log holds
\* at that moment, whatever daily-stats file an earlier call left behind;
\* for a day without a log file or with an empty one every figure is zero.
C22_AnalyticsFromLogOnly ==
    dataCall.op = "generate_daily_analytics" =>
        /\ dataCall.raised = ""
        /\ dataCall.analytics = AnalyticsOf(dataCall.date, dataCall.records)
        /\ dataCall.analytics.date = dataCall.date
        /\ dataCall.records = <<>> => AllZero(dataCall.analytics)

\* a call answered with fresh aggregates although the daily-stats file of an
\* earlier call on the same date said otherwise
C22_Witness ==
    /\ dataCall.op = "generate_daily_analytics"
    /\ dataCall.raised = ""
    /\ dataCall.stale
    /\ dataCall.analytics.total_executions = Len(LoggedOn(Strptime(dataCall.date).date.day))
    /\ dataCall.analytics.total_executions > 0

\* the positions of a log whose record passes a test
Positions(log, Test(_)) == {i \in DOMAIN log : Test(log[i])}

\* C23: the aggregates of a day count its records.  total is the number of
\* records of the log, successful the number with status success, failed
\* the rest (error and timeout alike), sampled_count the number flagged as
\* sampled; the latency figures are taken over the successful records that
\* carry a latency (mean, median position, largest value for the short
\* logs followed here) and are zero when there is none.
C23_AnalyticsCounts ==
    dataCall.op = "generate_daily_analytics" =>
            LET log == dataCall.records
                a == dataCall.analytics
                succeeded == Positions(log, LAMBDA e : e.status = "success")
                failed == Positions(log, LAMBDA e : e.status \in {"error", "timeout"})
                timed == {i \in succeeded : log[i].latency_ms # NoLatency}
                values == {log[i].latency_ms : i \in timed}
            IN  /\ a.total_executions = Len(log)
                /\ a.successful_executions = Cardinality(succeeded)
                /\ a.failed_executions = Cardinality(failed)
                /\ a.successful_executions + a.failed_executions = a.total_executions
                /\ a.sampled_count =
                      Cardinality(Positions(log, LAMBDA e : e.sampled_for_validation))
                /\ a.sampled_count <= a.total_executions
                /\ IF timed = {}
                   THEN /\ a.avg_latency_ms.num = 0
                        /\ a.p50_latency_ms = 0
                        /\ a.p99_latency_ms = 0
                   ELSE /\ a.avg_latency_ms.den = Cardinality(timed)
                        /\ a.avg_latency_ms.num =
                              SeqSum([i \in DOMAIN log |->
                                         IF i \in timed THEN log[i].latency_ms ELSE 0])
                        /\ a.p50_latency_ms \in values
                        /\ 2 * Cardinality({i \in timed : log[i].latency_ms < a.p50_latency_ms})
                              <= Cardinality(timed)
                        /\ 2 * Cardinality({i \in timed : log[i].latency_ms <= a.p50_latency_ms})
                              > Cardinality(timed)
                        /\ a.p99_latency_ms \in values
                        /\ \A v \in values : v <= a.p99_latency_ms

\* aggregates of a day with a successful and a failed record, one of them
\* sampled
C23_Witness ==
    /\ dataCall.op = "generate_daily_analytics"
    /\ dataCall.raised = ""
    /\ dataCall.analytics.total_executions >= 2
    /\ dataCall.analytics.failed_executions = 1
    /\ dataCall.analytics.sampled_count = 1
    /\ dataCall.analytics.avg_latency_ms.num > 0

\* the files of executions/ that glob("*.jsonl") yields under a name that
\* reads as a date
DatedLogs(data) ==
    {name \in DOMAIN LogEntries(data) :
        /\ MatchesJsonl(name)
        /\ LogEntries(data)[name].kind = "file"
        /\ Strptime(Stem(name)).ok}

\* a date of December 2023 or January 2024 counted in days from the last
\* day of 2023
DayNumber(date) == IF date.year = 2024 THEN date.day ELSE date.day - 31

\* the date lies strictly before the retention window that ends at the
\* clock reading: its midnight is earlier than the reading minus the window
OlderThanWindow(date, clock, days) ==
    2 * DayNumber(date) < 2 * (clock.day - days) + clock.tod

\* C24: apply_retention_policy removes exactly the dated log files that are
\* strictly older than the retention window measured from the clock at the
\* call, as whole files, and returns their number; every other entry stays
\* as it was, among them the files of the most recent retention_days days.
C24_RetentionDeletesOld ==
    [][DataCalled("apply_retention_policy") =>
            LET old == {name \in DatedLogs(dataset) :
                            OlderThanWindow(Strptime(Stem(name)).date, now, retention)}
            IN  /\ dataCall'.raised = ""
                /\ DOMAIN LogEntries(dataset') = (DOMAIN LogEntries(dataset)) \ old
                /\ dataCall'.count = Cardinality(old)
                /\ \A name \in DOMAIN LogEntries(dataset') :
                      LogEntries(dataset')[name] = LogEntries(dataset)[name]
                /\ \A day \in (now.day - retention + 1)..now.day :
                      LET name == LogFileName(Strftime(Date(day)))
                      IN  name \in DOMAIN LogEntries(dataset) =>
                              name \in DOMAIN LogEntries(dataset')]_vars

\* a call that removed two old files and kept the file of the current day
C24_Witness ==
    /\ dataCall.op = "apply_retention_policy"
    /\ dataCall.count >= 2
    /\ LoggedOn(now.day) # <<>>
    /\ ReadExecutionLogsOn(dataset, Strftime(Date(now.day))).value = LoggedOn(now.day)
    /\ \E day \in 1..MaxDay :
          /\ LoggedOn(day) # <<>>
          /\ ~PathExists(dataset.executions, LogFileName(Strftime(Date(day))))

\* C25: apply_retention_policy leaves alone every file whose name does not
\* read as a date and does not fail on it; the dated files that are too old
\* are removed all the same, and the count returned is the number of
\* entries the call removed.
C25_RetentionSkipsUnparseable ==
    [][DataCalled("apply_retention_policy") =>
            /\ dataCall'.raised = ""
            /\ \A name \in DOMAIN LogEntries(dataset) :
                  ~Strptime(Stem(name)).ok =>
                      /\ name \in DOMAIN LogEntries(dataset')
                      /\ LogEntries(dataset')[name] = LogEntries(dataset)[name]
            /\ \A name \in DatedLogs(dataset) :
                  OlderThanWindow(Strptime(Stem(name)).date, now, retention) =>
                      name \notin DOMAIN LogEntries(dataset')
            /\ dataCall'.count =
                  Cardinality((DOMAIN LogEntries(dataset)) \ DOMAIN LogEntries(dataset'))]_vars

\* a call that removed an old file next to the files with other names
C25_Witness ==
    /\ dataCall.op = "apply_retention_policy"
    /\ dataCall.count >= 1
    /\ \E name \in DOMAIN LogEntries(dataset) :
          MatchesJsonl(name) /\ ~Strptime(Stem(name)).ok
    /\ DatedLogs(dataset) = {}

(***************************************************************************)
(* Properties of the edge runtime                                          *)
(***************************************************************************)
\* C26: an EdgeRuntime exists only with the active artifact of its task.
\* The constructor returns exactly when get_active_artifact yields an
\* artifact, and that artifact, one that was stored, is the one the runtime
\* holds; otherwise the constructor raises and no runtime comes of it.
C26_ConstructNeedsActiveArtifact ==
    /\ \A e \in EdgeIds :
          edges[e].made =>
              /\ GetActiveArtifactOn(disk[ExecTask]) = ReturnArtifact(edges[e].artifact)
              /\ edges[e].artifact.version \in DOMAIN written[ExecTask]
              /\ edges[e].artifact.code = written[ExecTask][edges[e].artifact.version].code
    /\ served.op = "construct" =>
          /\ served.outcome = "returned" <=>
                GetActiveArtifactOn(disk[ExecTask]).tag = "artifact"
          /\ served.outcome = "raised" => ~edges[served.edge].made
          /\ served.outcome = "returned" => edges[served.edge].made

\* the constructor raised ValueError for a task whose artifact is stored but
\* not activated
C26_Witness ==
    /\ served.op = "construct"
    /\ served.raised = "ValueError"
    /\ written[ExecTask] # EmptyDir
    /\ ~edges[served.edge].made

\* the execute calls that ended on a day
CallsOn(day) == Len(SelectSeq(served.calls, LAMBDA d : d = day))

\* C27: every EdgeRuntime.execute call leaves one record in the log of its
\* day.  After n calls on a day, over one runtime or several, the day's log
\* holds n records, in call order, and get_metrics reports n executions
\* for the current day.
C27_OneRecordPerExecute ==
    /\ \A day \in LogDays :
          LET read == ReadExecutionLogsOn(dataset, Strftime(Date(day)))
          IN  /\ read.raised = ""
              /\ read.value = LoggedOn(day)
              /\ Len(read.value) = CallsOn(day)
    /\ served.op = "get_metrics" => served.executions_today = CallsOn(now.day)

\* C28: concurrent log_execution calls do not disturb one another.  Once
\* the calls under way have ended, the day's file reads as complete lines,
\* one for each call that ended, each the record of one of the calls.
C28_ConcurrentAppendsKeepLines ==
    (\A a \in Appenders : appenders[a].pc \in {"idle", "done"}) =>
        LET ended == {a \in Appenders : appenders[a].pc = "done"}
            read == ReadExecutionLogsOn(dataset, Strftime(Date(now.day)))
        IN  /\ read.raised = ""
            /\ Len(read.value) = Cardinality(ended)
            /\ \A a \in ended : \E i \in DOMAIN read.value : read.value[i] = appenders[a].record

(***************************************************************************)
(* Properties of the compiled cache                                        *)
(***************************************************************************)
\* C29: the compiled form is cached per program id.  Between two
\* clear_cache calls the source of an id that compiles is compiled once, by
\* the first execute of the id, and is in the cache from then on; an
\* execute of an id that is in the cache compiles nothing.
C29_CompiledOncePerId ==
    /\ \A program \in SamplePrograms :
          Compiles(program.code) =>
              /\ CompileCount(compiles, program.id) <= 1
              /\ program.id \in DOMAIN compiledCache <=>
                    CompileCount(compiles, program.id) = 1
    /\ executed.program # NoProgram /\ Compiles(executed.program.code) =>
          CompileCount(compiles, executed.program.id) = 1 \/ compiledCache = EmptyCache

\* an execute that ran the cached form of its program without compiling
C29_Witness ==
    /\ executed.outcome = "returned"
    /\ executed.record.status = "success"
    /\ ~executed.compiled
    /\ CompileCount(compiles, executed.program.id) = 1

\* C30: a compilation failure is cached for its program id.  Every execute
\* of a program whose source does not compile returns an error record, and
\* the source of such an id is compiled once only.
C30_CompileFailureCached ==
    /\ executed.program # NoProgram /\ ~Compiles(executed.program.code) =>
          executed.outcome = "returned" /\ executed.record.status = "error"
    /\ \A program \in SamplePrograms :
          ~Compiles(program.code) => CompileCount(compiles, program.id) <= 1

(***************************************************************************)
(* Properties of concurrent callers of the executor                        *)
(***************************************************************************)
\* C31: compilation on a cache miss is a critical section.  Whatever the
\* interleaving of the threads that execute on one executor, the source of
\* a program id that compiles is compiled at most once, and a call that has
\* ended with a record of a compiling program ran the entry of the cache.
C31_CompileIsCriticalSection ==
    /\ \A program \in ThreadPrograms :
          Compiles(program.code) => CompileCount(compiles, program.id) <= 1
    /\ \A c \in ExecCallers :
          callers[c].pc = "done" /\ Compiles(callers[c].program.code) =>
              /\ callers[c].result.outcome = "returned"
              /\ callers[c].program.id \in DOMAIN compiledCache

\* C32: every record that compare produces has tier1 and tier2 passed, tier3
\* equal to match, similarity 1 on a match and 0 otherwise, failure type
\* logic_error with details naming both raw outputs exactly when match is
\* false, neither on a match, and the ids of the compared execution.
C32_ValidationRecordShape ==
    compared.called /\ compared.result.raised = "" =>
        LET validation == compared.result.validation
            execution == compared.execution
        IN  /\ validation.tier1_passed
            /\ validation.tier2_passed
            /\ validation.tier3_passed = validation.match
            /\ validation.similarity_score = (IF validation.match THEN 1 ELSE 0)
            /\ ~validation.match =>
                  /\ validation.failure_type = Some("logic_error")
                  /\ validation.failure_details =
                        Details(ExtractOutput(execution.output),
                                compared.oracle_result.output)
            /\ validation.match =>
                  /\ validation.failure_type = None
                  /\ validation.failure_details = NoDetails
            /\ validation.execution_id = execution.id
            /\ validation.program_id = execution.program_id

\* a mismatch of a second program's failed execution against a spam oracle
C32_MismatchRecorded ==
    /\ compared.called
    /\ compared.execution.program_id = 2
    /\ ~compared.result.validation.match
    /\ compared.result.validation.program_id = 2
    /\ compared.result.validation.failure_details = Details(<<>>, SpamText)

\* C33: the percentiles of the daily analytics are the elements at index
\* floor(N * p) of the ascending successful latencies, for p = 0.50 and
\* 0.99: with N >= 1 both indices are within the list, both values are
\* logged latencies, and p50 <= p99.
C33_PercentilesWithinBounds ==
    dataCall.op = "generate_daily_analytics" /\ dataCall.raised = "" =>
        LET latencies == SuccessLatencies(dataCall.records)
            n == Len(latencies)
            sorted == SortSeq(latencies, LAMBDA x, y : x < y)
            i50 == (n * 50) \div 100
            i99 == (n * 99) \div 100
        IN  n >= 1 =>
              /\ i50 \in 0..(n - 1)
              /\ i99 \in 0..(n - 1)
              /\ dataCall.analytics.p50_latency_ms = sorted[i50 + 1]
              /\ dataCall.analytics.p99_latency_ms = sorted[i99 + 1]
              /\ \E k \in 1..n : latencies[k] = dataCall.analytics.p50_latency_ms
              /\ \E k \in 1..n : latencies[k] = dataCall.analytics.p99_latency_ms
              /\ dataCall.analytics.p50_latency_ms <= dataCall.analytics.p99_latency_ms

\* analytics of a day with three successes logged out of order: the median
\* and the largest latency are reported
C33_Witness ==
    /\ dataCall.op = "generate_daily_analytics"
    /\ SuccessLatencies(dataCall.records) = <<9, 1, 4>>
    /\ dataCall.analytics.p50_latency_ms = 4
    /\ dataCall.analytics.p99_latency_ms = 9

\* C34: the runtime resolves the active artifact once, at construction.
\* No store_artifact or set_active_version call (nor any other step) changes
\* the artifact a constructed runtime holds; its execute runs that artifact
\* and its health endpoint reports that artifact's version; a runtime
\* constructed later holds the artifact that is active then.
C34_ArtifactResolvedAtConstruction ==
    [][\A e \in EdgeIds :
          /\ edges[e].made =>
                /\ edges'[e].made
                /\ edges'[e].artifact = edges[e].artifact
          /\ edges[e].made /\ served' # served /\ served'.edge = e =>
                /\ served'.op = "health" =>
                      served'.active_version = edges[e].artifact.version
                /\ served'.op = "execute" =>
                      /\ served'.record.program_id = edges[e].artifact.id
                      /\ served'.record.output =
                            ExecuteOn(EmptyCache,
                                      Program(edges[e].artifact.id, edges[e].artifact.code),
                                      ExecTask,
                                      CHOOSE input \in ReloadInputs : TRUE).record.output
          /\ ~edges[e].made /\ edges'[e].made =>
                edges'[e].artifact = GetActiveArtifactOn(disk[ExecTask]).artifact
    ]_vars

\* version 2 was stored and activated after runtime 1 was constructed:
\* runtime 1 still reports version 1 and runtime 2, constructed afterwards,
\* holds version 2
C34_Witness ==
    /\ edges[1].made /\ edges[1].artifact.version = 1
    /\ edges[2].made /\ edges[2].artifact.version = 2
    /\ activated[ExecTask] = 2
    /\ served.op = "health" /\ served.edge = 1 /\ served.active_version = 1

\* version 1 was overwritten with other code after runtime 1 was
\* constructed: runtime 1 still answers with the code it loaded
C34_WitnessOverwrite ==
    /\ edges[1].made /\ edges[1].artifact.code = SpamCode
    /\ written[ExecTask][1].code = AlwaysSpamCode
    /\ served.op = "execute" /\ served.edge = 1
    /\ served.record.output = Some("ham")

\* C35: the hot path never samples or validates.  A call of
\* EdgeRuntime.execute leaves the validations directory, the sampler and
\* the comparison engine (with its oracle results) as they were, and every
\* record it persists has sampled_for_validation false and no validation id.
C35_HotPathNeverValidates ==
    [][served' # served /\ served'.op = "execute" =>
          /\ dataset'.validations = dataset.validations
          /\ UNCHANGED <<sampleVars, validateVars>>
          /\ served'.record # NoLogged =>
                /\ ~served'.record.sampled_for_validation
                /\ served'.record.validation_id = None
          /\ \A i \in DOMAIN logged' :
                /\ ~logged'[i].record.sampled_for_validation
                /\ logged'[i].record.validation_id = None
    ]_vars

\* an execute call that persisted a success record, the validations
\* directory still empty
C35_Witness ==
    /\ served.op = "execute"
    /\ served.outcome = "returned"
    /\ served.record.status = "success"
    /\ Len(logged) = 2
    /\ dataset.validations = Dir(EmptyDir)

\* C36: EdgeRuntime.execute returns its (output, latency_ms) pair also when
\* the program ended with status error or timeout: the failure is recorded
\* in the log and no exception leaves execute.
C36_FailureDoesNotSurface ==
    served.op = "execute" /\ served.record.status \in {"error", "timeout"} =>
        /\ served.outcome = "returned"
        /\ served.raised = ""

\* C37: execute runs the code of the artifact passed to it: the record of
\* a call is the record that a fresh executor gives for the same artifact
\* and input, whatever was executed under the same id before.
C37_RunsTheCodePassed ==
    executed.outcome = "returned" =>
        executed.record =
            ExecuteOn(EmptyCache, executed.program, ExecTask, executed.record.input).record

\* C38: a get_artifact that runs while store_artifact overwrites the
\* version returns one of the complete editions stored: never a mixture of
\* two editions, never partial content, never an error.
C38_ReadSeesWholeArtifact ==
    fetching.pc = "done" /\ fetching.version = 1 =>
        \E edition \in StoredEditions : fetching.result = ReturnArtifact(edition)

\* the read that mixes two editions: the new code under the old metadata
C38_MixedRead ==
    /\ fetching.pc = "done"
    /\ fetching.result.tag = "artifact"
    /\ fetching.result.artifact.code = AlwaysSpamCode
    /\ fetching.result.artifact.status = "validated"

\* C39: once the daily-stats file of a date holds analytics with a
\* non-zero total, no apply_retention_policy or generate_daily_analytics
\* call leaves that file with all-zero analytics.
C39_AnalyticsStayRegenerable ==
    [][\A day \in 1..MaxDay :
          StatsFile(dataset, Strftime(Date(day))).content.total_executions > 0 =>
              StatsFile(dataset', Strftime(Date(day))).content.total_executions > 0
    ]_vars

LastReply == request.replies[Len(request.replies)]

\* the attempts of a request are bounded, and only transport failures are
\* followed by another attempt
C40_AttemptsBounded ==
    /\ request.pc # "idle" => Len(request.replies) <= request.max_retries + 1
    /\ \A i \in 1..(Len(request.replies) - 1) : request.replies[i].kind # "response"
    /\ request.raised = "ConnectionException" =>
          /\ Len(request.replies) = request.max_retries + 1
          /\ \A i \in DOMAIN request.replies : request.replies[i].kind # "response"

\* C40: a request makes at most max_retries + 1 attempts; transport
\* failures are retried until a response arrives or the attempts are used
\* up, then ConnectionException is raised; any response ends the loop at
\* once: a status below 400 is returned as data, 400 raises
\* ValidationException, 500 ExecutionException, any other status from 400
\* on LoopaiException.
C40_RequestLoop ==
    /\ C40_AttemptsBounded
    /\ request.pc = "loop" /\ request.replies # <<>> => LastReply.kind # "response"
    /\ request.pc = "done" /\ request.replies # <<>> /\ LastReply.kind = "response" =>
          IF LastReply.status < 400
          THEN request.outcome = "returned"
          ELSE /\ request.outcome = "raised"
               /\ request.raised =
                     (IF LastReply.status = 400 THEN "ValidationException"
                      ELSE IF LastReply.status = 500 THEN "ExecutionException"
                      ELSE "LoopaiException")

====
